---- MODULE Spec2Model ----
(***************************************************************************)
(* Trading-bot core: the signal aggregator and plan synthesizer            *)
(* (generateTradeRecommendation and its helpers) together with the part of *)
(* the technical analyzer that produces the records it consumes.           *)
(*                                                                         *)
(* Numbers.  Input prices are positive integers.  Every price carried by   *)
(* a plan is held in units of 1/PriceScale of an input price unit, so the  *)
(* factors 0.98, 1.02, 0.95, 1.05, 1.03, 0.97, 0.9 and 1.1 of the source   *)
(* are exact integer products (x98, x102, ...).  Allocations are held in   *)
(* percent (0.4 -> 40), so 1.0 is AllocationWhole.  A ratio such as        *)
(* percentageGain is held as <<numerator, denominator>>.                   *)
(***************************************************************************)
EXTENDS Integers, Sequences, FiniteSets, TLC

VARIABLES
  technicalAnalysis,   \* argument of generateTradeRecommendation
  sentimentAnalysis,   \* argument of generateTradeRecommendation
  volumeAnalysis,      \* argument of generateTradeRecommendation
  absent,              \* property paths that are undefined in the arguments
  recommendation,      \* value returned to the caller
  pc,                  \* "ready" before the call, "returned" after it,
                       \* "thrown" if an exception reached the caller
  call,                \* a call of one of the analyzers' functions: its
                       \* name and its arguments
  result               \* value that call returned

vars == <<technicalAnalysis, sentimentAnalysis, volumeAnalysis, absent,
          recommendation, pc, call, result>>

(***************************************************************************)
(* Bounds of the model.                                                    *)
(***************************************************************************)
NumPrices == 5        \* size of the grid the price levels are drawn from
NumCurrent == 2       \* number of current prices tried
MaxAbsent == 1        \* number of properties undefined at once
PriceBase == 90       \* lowest point of the price grid
PriceStep == 5        \* distance between two points of the price grid

(***************************************************************************)
(* Number representation.                                                  *)
(***************************************************************************)
PriceScale == 100
AllocationWhole == 100
Null == 0             \* JavaScript null / undefined for a price (falsy)

(***************************************************************************)
(* Classification vocabularies produced by the analyzers.                  *)
(***************************************************************************)
TrendDirections == {"bullish", "bearish", "neutral"}
TrendStrengths == {"weak", "moderate", "strong", "very strong"}
MaTrends ==
  {"strongly bullish", "bullish", "neutral", "bearish", "strongly bearish"}
OverallMomentums ==
  {"strongly bullish", "bullish", "neutral", "bearish", "strongly bearish"}
OscillatorConsensuses == {"bullish", "bearish", "neutral"}
PatternSignals == {"bullish", "bearish", "neutral"}
MarketStructures == {"uptrend", "downtrend", "ranging"}
VolatilityLevels == {"low", "medium", "high"}
SentimentClasses ==
  {"very bullish", "bullish", "neutral", "bearish", "very bearish"}
FearGreedClasses ==
  {"extreme greed", "greed", "neutral", "fear", "extreme fear"}
VolumeTrendClasses == {"increasing", "decreasing", "stable"}
PressureClasses == {"buying", "selling", "neutral"}
VolumeWallClasses == {"strong support", "strong resistance", "balanced"}

(***************************************************************************)
(* String.prototype.includes over the classification vocabulary: the       *)
(* substrings of interest occurring in each classification string.         *)
(***************************************************************************)
Includes(s, w) ==
  CASE s = "strongly bullish" -> w \in {"strongly", "bullish"}
    [] s = "strongly bearish" -> w \in {"strongly", "bearish"}
    [] s = "very bullish"     -> w \in {"very", "bullish"}
    [] s = "very bearish"     -> w \in {"very", "bearish"}
    [] OTHER                  -> w = s

(***************************************************************************)
(* determineTradeDirection: vote counting over the three analyses.         *)
(***************************************************************************)
B(cond) == IF cond THEN 1 ELSE 0

technicalBullishCount(ta) ==
    B(ta.trendStrength.direction = "bullish")
  + B(Includes(ta.movingAverages.maTrend, "bullish"))
  + B(Includes(ta.momentum.overallMomentum, "bullish"))
  + B(ta.oscillators.consensus = "bullish")
  + B(ta.patterns.patternSignal = "bullish")
  + B(ta.marketStructure.structure = "uptrend")

technicalBearishCount(ta) ==
    B(ta.trendStrength.direction = "bearish")
  + B(Includes(ta.movingAverages.maTrend, "bearish"))
  + B(Includes(ta.momentum.overallMomentum, "bearish"))
  + B(ta.oscillators.consensus = "bearish")
  + B(ta.patterns.patternSignal = "bearish")
  + B(ta.marketStructure.structure = "downtrend")

sentimentBullishCount(sa) ==
    B(Includes(sa.overallSentiment.classification, "bullish"))
  + B(Includes(sa.social.sentiment, "bullish"))
  + B(Includes(sa.news.sentiment, "bullish"))
  + B(sa.fearGreedIndex.classification = "extreme greed")

sentimentBearishCount(sa) ==
    B(Includes(sa.overallSentiment.classification, "bearish"))
  + B(Includes(sa.social.sentiment, "bearish"))
  + B(Includes(sa.news.sentiment, "bearish"))
  + B(sa.fearGreedIndex.classification = "extreme fear")

volumeBullishCount(va) ==
    B(va.volumeTrends.classification = "increasing")
  + B(va.buySellRatio.pressureClassification = "buying")
  + B(va.volumeAtPrice.volumeWallClassification = "strong support")

\* Variant: a wall of resistance is not counted as a bearish signal.
volumeBearishCount_withoutWall(va) ==
    B(va.volumeTrends.classification = "decreasing")
  + B(va.buySellRatio.pressureClassification = "selling")

volumeBearishCount(va) ==
    B(va.volumeTrends.classification = "decreasing")
  + B(va.buySellRatio.pressureClassification = "selling")
  + B(va.volumeAtPrice.volumeWallClassification = "strong resistance")

totalBullish(ta, sa, va) ==
  technicalBullishCount(ta) + sentimentBullishCount(sa) + volumeBullishCount(va)

totalBearish(ta, sa, va) ==
  technicalBearishCount(ta) + sentimentBearishCount(sa) + volumeBearishCount(va)

\* Variant: the margin must exceed 3 instead of reaching it.
determineTradeDirection_strictMargin(ta, sa, va) ==
  LET bull == totalBullish(ta, sa, va)
      bear == totalBearish(ta, sa, va)
  IN  IF bull > bear /\ bull - bear > 3 THEN "long"
      ELSE IF bear > bull /\ bear - bull > 3 THEN "short"
      ELSE "neutral"

determineTradeDirection(ta, sa, va) ==
  LET bull == totalBullish(ta, sa, va)
      bear == totalBearish(ta, sa, va)
  IN  IF bull > bear /\ bull - bear >= 3 THEN "long"
      ELSE IF bear > bull /\ bear - bull >= 3 THEN "short"
      ELSE "neutral"

(***************************************************************************)
(* calculateConfidence: the score and its label.                           *)
(***************************************************************************)
agreeing(direction) == IF direction = "long" THEN "bullish" ELSE "bearish"

trendScore(ta, direction) ==
  IF ta.trendStrength.strength = "strong"
       /\ ta.trendStrength.direction = agreeing(direction) THEN 2
  ELSE IF ta.trendStrength.strength = "moderate"
       /\ ta.trendStrength.direction = agreeing(direction) THEN 1
  ELSE 0

\* Variant: only "strongly" agreeing momentum scores.
momentumScore_strongOnly(ta, direction) ==
  IF Includes(ta.momentum.overallMomentum, "strongly")
       /\ Includes(ta.momentum.overallMomentum, agreeing(direction)) THEN 2
  ELSE 0

momentumScore(ta, direction) ==
  IF Includes(ta.momentum.overallMomentum, "strongly")
       /\ Includes(ta.momentum.overallMomentum, agreeing(direction)) THEN 2
  ELSE IF ta.momentum.overallMomentum = agreeing(direction) THEN 1
  ELSE 0

maScore(ta, direction) ==
  IF Includes(ta.movingAverages.maTrend, "strongly")
       /\ Includes(ta.movingAverages.maTrend, agreeing(direction)) THEN 2
  ELSE IF ta.movingAverages.maTrend = agreeing(direction) THEN 1
  ELSE 0

sentimentScore(sa, direction) ==
  IF Includes(sa.overallSentiment.classification, "very")
       /\ Includes(sa.overallSentiment.classification, agreeing(direction))
    THEN 2
  ELSE IF sa.overallSentiment.classification = agreeing(direction) THEN 1
  ELSE 0

pressureScore(va, direction) ==
  B(va.buySellRatio.pressureClassification
      = (IF direction = "long" THEN "buying" ELSE "selling"))

wallScore(va, direction) ==
  B(va.volumeAtPrice.volumeWallClassification
      = (IF direction = "long" THEN "strong support" ELSE "strong resistance"))

confidenceScore(ta, sa, va, direction) ==
    trendScore(ta, direction) + momentumScore(ta, direction)
  + maScore(ta, direction) + sentimentScore(sa, direction)
  + pressureScore(va, direction) + wallScore(va, direction)

\* Variant: the "moderate" band starts one point late.
confidenceLevel_lateModerate(score) ==
  IF score >= 7 THEN "very high"
  ELSE IF score >= 5 THEN "high"
  ELSE IF score > 3 THEN "moderate"
  ELSE "low"

confidenceLevel(score) ==
  IF score >= 7 THEN "very high"
  ELSE IF score >= 5 THEN "high"
  ELSE IF score >= 3 THEN "moderate"
  ELSE "low"

calculateConfidence(ta, sa, va, direction) ==
  confidenceLevel(confidenceScore(ta, sa, va, direction))

(***************************************************************************)
(* analyzeSupportsAndResistances: nearest levels around the current price. *)
(* levels is the record [support, resistance] of ascending level lists     *)
(* produced by identifySupportResistance.                                  *)
(***************************************************************************)
Range(seq) == {seq[i] : i \in DOMAIN seq}

MaxOf(S) == CHOOSE x \in S : \A y \in S : y <= x

MinOf(S) == CHOOSE x \in S : \A y \in S : x <= y

analyzeSupportsAndResistances(levels, currentPrice) ==
  LET supports == {l \in Range(levels.support) : l < currentPrice}
      resistances == {l \in Range(levels.resistance) : l > currentPrice}
  IN  [levels |-> levels,
       currentPrice |-> currentPrice,
       nearestSupport |-> IF supports # {} THEN MaxOf(supports) ELSE Null,
       nearestResistance |->
         IF resistances # {} THEN MinOf(resistances) ELSE Null]

(***************************************************************************)
(* determineEntryPoints.                                                   *)
(***************************************************************************)
Truthy(price) == price # Null

Entry(price, type, allocation, reason) ==
  [price |-> price * PriceScale, type |-> type, allocation |-> allocation,
   reason |-> reason]

determineEntryPoints(ta, direction) ==
  LET sr == ta.supportResistance
      currentPrice == sr.currentPrice
      market == <<Entry(currentPrice, "market", 40, "Immediate market entry")>>
  IN  IF direction = "long" THEN
        market
        \o (IF Truthy(sr.nearestSupport)
              THEN <<Entry(sr.nearestSupport, "limit", 30,
                           "Entry at nearest support level")>>
              ELSE <<>>)
        \o (IF Len(sr.levels.support) >= 2
              THEN <<Entry(sr.levels.support[2], "limit", 30,
                           "Entry at secondary support level")>>
              ELSE <<>>)
      ELSE IF direction = "short" THEN
        market
        \o (IF Truthy(sr.nearestResistance)
              THEN <<Entry(sr.nearestResistance, "limit", 30,
                           "Entry at nearest resistance level")>>
              ELSE <<>>)
        \o (IF Len(sr.levels.resistance) >= 2
              THEN <<Entry(sr.levels.resistance[2], "limit", 30,
                           "Entry at secondary resistance level")>>
              ELSE <<>>)
      ELSE <<>>

(***************************************************************************)
(* determineTakeProfitTargets.  factor is the price multiplier in 1/100.   *)
(***************************************************************************)
LevelTarget(level, allocation, gainNumerator, currentPrice, reason) ==
  [price |-> level * PriceScale, allocation |-> allocation,
   percentageGain |-> <<gainNumerator * 100, currentPrice>>,
   reason |-> reason]

\* Variant: the target is left at the current price.
PercentTarget_unscaled(currentPrice, factor, allocation, gain, reason) ==
  [price |-> currentPrice * PriceScale, allocation |-> allocation,
   percentageGain |-> <<gain, 1>>, reason |-> reason]

PercentTarget(currentPrice, factor, allocation, gain, reason) ==
  [price |-> currentPrice * factor, allocation |-> allocation,
   percentageGain |-> <<gain, 1>>, reason |-> reason]

determineTakeProfitTargets(ta, direction) ==
  LET currentPrice == ta.supportResistance.currentPrice
      resistances == ta.supportResistance.levels.resistance
      supports == ta.supportResistance.levels.support
  IN  IF direction = "long" THEN
        IF Len(resistances) > 0 THEN
          <<LevelTarget(resistances[1], 30, resistances[1] - currentPrice,
                        currentPrice,
                        "First take profit at nearest resistance")>>
          \o (IF Len(resistances) > 1
                THEN <<LevelTarget(resistances[2], 30,
                                   resistances[2] - currentPrice, currentPrice,
                                   "Second take profit at higher resistance")>>
                ELSE <<>>)
          \o (IF Len(resistances) > 2
                THEN <<LevelTarget(resistances[3], 40,
                                   resistances[3] - currentPrice, currentPrice,
                                   "Final take profit at major resistance")>>
                ELSE <<PercentTarget(currentPrice, 110, 40, 10,
                                     "Final take profit at projected target")>>)
        ELSE
          <<PercentTarget(currentPrice, 103, 30, 3,
                          "First take profit at 3% gain"),
            PercentTarget(currentPrice, 105, 30, 5,
                          "Second take profit at 5% gain"),
            PercentTarget(currentPrice, 110, 40, 10,
                          "Final take profit at 10% gain")>>
      ELSE IF direction = "short" THEN
        IF Len(supports) > 0 THEN
          <<LevelTarget(supports[1], 30, currentPrice - supports[1],
                        currentPrice,
                        "First take profit at nearest support")>>
          \o (IF Len(supports) > 1
                THEN <<LevelTarget(supports[2], 30,
                                   currentPrice - supports[2], currentPrice,
                                   "Second take profit at lower support")>>
                ELSE <<>>)
          \o (IF Len(supports) > 2
                THEN <<LevelTarget(supports[3], 40,
                                   currentPrice - supports[3], currentPrice,
                                   "Final take profit at major support")>>
                ELSE <<PercentTarget(currentPrice, 90, 40, 10,
                                     "Final take profit at projected target")>>)
        ELSE
          <<PercentTarget(currentPrice, 97, 30, 3,
                          "First take profit at 3% gain"),
            PercentTarget(currentPrice, 95, 30, 5,
                          "Second take profit at 5% gain"),
            PercentTarget(currentPrice, 90, 40, 10,
                          "Final take profit at 10% gain")>>
      ELSE <<>>

(***************************************************************************)
(* determineStopLoss.  Entry prices are already multiples of PriceScale,   *)
(* so the 5% stop is the exact quotient below.                             *)
(***************************************************************************)
EntryPrices(entries) == {entries[i].price : i \in DOMAIN entries}

StopLoss(stopPrice, lossNumerator, currentPrice, reason) ==
  [price |-> stopPrice, percentageLoss |-> <<lossNumerator, currentPrice>>,
   reason |-> reason]

\* Variant: the nearest level is ignored, the stop is always 5% beyond the
\* extreme entry.
determineStopLoss_entryOnly(ta, direction, entries) ==
  LET currentPrice == ta.supportResistance.currentPrice
  IN  IF direction = "long" THEN
        LET stopPrice == (MinOf(EntryPrices(entries)) * 95) \div PriceScale
        IN  StopLoss(stopPrice, currentPrice * PriceScale - stopPrice,
                     currentPrice,
                     "Stop loss placed 5% below lowest entry point")
      ELSE
        LET stopPrice == (MaxOf(EntryPrices(entries)) * 105) \div PriceScale
        IN  StopLoss(stopPrice, stopPrice - currentPrice * PriceScale,
                     currentPrice,
                     "Stop loss placed 5% above highest entry point")

determineStopLoss(ta, direction, entries) ==
  LET sr == ta.supportResistance
      currentPrice == sr.currentPrice
  IN  IF direction = "long" THEN
        IF Truthy(sr.nearestSupport) THEN
          LET stopPrice == sr.nearestSupport * 98
          IN  StopLoss(stopPrice, currentPrice * PriceScale - stopPrice,
                       currentPrice,
                       "Stop loss placed below nearest support level")
        ELSE
          LET lowestEntry == MinOf(EntryPrices(entries))
              stopPrice == (lowestEntry * 95) \div PriceScale
          IN  StopLoss(stopPrice, currentPrice * PriceScale - stopPrice,
                       currentPrice,
                       "Stop loss placed 5% below lowest entry point")
      ELSE
        IF Truthy(sr.nearestResistance) THEN
          LET stopPrice == sr.nearestResistance * 102
          IN  StopLoss(stopPrice, stopPrice - currentPrice * PriceScale,
                       currentPrice,
                       "Stop loss placed above nearest resistance level")
        ELSE
          LET highestEntry == MaxOf(EntryPrices(entries))
              stopPrice == (highestEntry * 105) \div PriceScale
          IN  StopLoss(stopPrice, stopPrice - currentPrice * PriceScale,
                       currentPrice,
                       "Stop loss placed 5% above highest entry point")

(***************************************************************************)
(* calculateLeverage.  The volatility multiplier is held doubled (1.5 -> 3,*)
(* 0.5 -> 1, 1 -> 2); Math.round rounds halves towards +infinity.          *)
(***************************************************************************)
baseLeverage(confidence) ==
  IF confidence = "very high" THEN 5
  ELSE IF confidence = "high" THEN 3
  ELSE IF confidence = "moderate" THEN 2
  ELSE 1

volatilityMultiplierDoubled(volatility) ==
  IF volatility.level = "low" THEN 3
  ELSE IF volatility.level = "high" THEN 1
  ELSE 2

\* Variant: truncation instead of rounding.
MathRoundHalves_truncate(doubled) == doubled \div 2

MathRoundHalves(doubled) == (doubled + 1) \div 2

calculateLeverage(confidence, volatility) ==
  LET finalLeverage ==
        MathRoundHalves(baseLeverage(confidence)
                          * volatilityMultiplierDoubled(volatility))
  IN  [recommended |-> finalLeverage,
       riskLevel |-> IF finalLeverage >= 4 THEN "high"
                     ELSE IF finalLeverage <= 2 THEN "low"
                     ELSE "moderate"]

(***************************************************************************)
(* Property reads that raise a TypeError when the property is undefined    *)
(* (a property read on undefined, or .includes / .length / .toFixed on     *)
(* undefined), listed per step in the order the step performs them.        *)
(***************************************************************************)
determineTradeDirectionReads ==
  <<"technicalAnalysis",
    "technicalAnalysis.trendStrength",
    "technicalAnalysis.movingAverages",
    "technicalAnalysis.movingAverages.maTrend",
    "technicalAnalysis.momentum",
    "technicalAnalysis.momentum.overallMomentum",
    "technicalAnalysis.oscillators",
    "technicalAnalysis.patterns",
    "technicalAnalysis.marketStructure",
    "sentimentAnalysis",
    "sentimentAnalysis.overallSentiment",
    "sentimentAnalysis.overallSentiment.classification",
    "sentimentAnalysis.social",
    "sentimentAnalysis.social.sentiment",
    "sentimentAnalysis.news",
    "sentimentAnalysis.news.sentiment",
    "sentimentAnalysis.fearGreedIndex",
    "volumeAnalysis",
    "volumeAnalysis.volumeTrends",
    "volumeAnalysis.buySellRatio",
    "volumeAnalysis.volumeAtPrice">>

determineEntryPointsReads(direction) ==
  <<"technicalAnalysis.supportResistance",
    "technicalAnalysis.supportResistance.levels",
    IF direction = "long"
      THEN "technicalAnalysis.supportResistance.levels.support"
      ELSE "technicalAnalysis.supportResistance.levels.resistance">>

determineTakeProfitTargetsReads(direction) ==
  <<IF direction = "long"
      THEN "technicalAnalysis.supportResistance.levels.resistance"
      ELSE "technicalAnalysis.supportResistance.levels.support">>

calculateLeverageReads == <<"technicalAnalysis.volatility">>

generateReasoningReads(va, direction) ==
  (IF direction = "long"
     THEN <<"technicalAnalysis.patterns.doubleBottom",
            "technicalAnalysis.patterns.inverseHeadAndShoulders">>
     ELSE <<"technicalAnalysis.patterns.doubleTop",
            "technicalAnalysis.patterns.headAndShoulders">>)
  \o (IF va.buySellRatio.pressureClassification
           = (IF direction = "long" THEN "buying" ELSE "selling")
        THEN <<"volumeAnalysis.buySellRatio.ratio">>
        ELSE <<>>)

summarizeTechnicalAnalysisReads ==
  <<"technicalAnalysis.movingAverages.sma",
    "technicalAnalysis.momentum.rsi",
    "technicalAnalysis.momentum.macd">>

summarizeVolumeAnalysisReads == <<"volumeAnalysis.volumeTrends.volumes">>

AbsentPaths ==
  Range(determineTradeDirectionReads)
  \cup Range(determineEntryPointsReads("long"))
  \cup Range(determineEntryPointsReads("short"))
  \cup Range(calculateLeverageReads)
  \cup {"technicalAnalysis.patterns.doubleBottom",
        "technicalAnalysis.patterns.inverseHeadAndShoulders",
        "technicalAnalysis.patterns.doubleTop",
        "technicalAnalysis.patterns.headAndShoulders",
        "volumeAnalysis.buySellRatio.ratio"}
  \cup Range(summarizeTechnicalAnalysisReads)
  \cup Range(summarizeVolumeAnalysisReads)

\* The reads of a step that raise, in order; <<>> when the step completes.
Raised(reads, abs) == SelectSeq(reads, LAMBDA path : path \in abs)

(***************************************************************************)
(* generateTradeRecommendation.  tryBlock is the body of the try: it       *)
(* either completes with a value or raises with a message.  The symbol,    *)
(* the timestamps, the reasoning texts and the three summaries carry no    *)
(* decision and are left out of the returned record; the reads they        *)
(* perform are kept.                                                       *)
(***************************************************************************)
Completed(value) == [raised |-> FALSE, value |-> value]

Raise(message) == [raised |-> TRUE, message |-> message]

NeutralRecommendation ==
  [recommendation |-> "neutral", confidence |-> "low",
   reason |->
     <<"Conflicting signals or lack of clear direction in the market">>]

ErrorRecommendation(message) ==
  [recommendation |-> "neutral", confidence |-> "low",
   reason |-> <<"Error generating recommendation: ", message>>]

planReads(va, direction) ==
  determineEntryPointsReads(direction)
  \o determineTakeProfitTargetsReads(direction)
  \o calculateLeverageReads
  \o generateReasoningReads(va, direction)
  \o summarizeTechnicalAnalysisReads
  \o summarizeVolumeAnalysisReads

tryBlock(ta, sa, va, abs) ==
  IF Raised(determineTradeDirectionReads, abs) # <<>>
    THEN Raise(Head(Raised(determineTradeDirectionReads, abs)))
  ELSE
    LET direction == determineTradeDirection(ta, sa, va)
    IN  IF direction = "neutral" THEN Completed(NeutralRecommendation)
        ELSE IF Raised(planReads(va, direction), abs) # <<>>
          THEN Raise(Head(Raised(planReads(va, direction), abs)))
        ELSE
          LET confidence == calculateConfidence(ta, sa, va, direction)
              entries == determineEntryPoints(ta, direction)
          IN  Completed(
                [recommendation |-> direction,
                 confidence |-> confidence,
                 entries |-> entries,
                 takeProfitTargets |->
                   determineTakeProfitTargets(ta, direction),
                 stopLoss |-> determineStopLoss(ta, direction, entries),
                 leverage |-> calculateLeverage(confidence, ta.volatility)])

\* Variant: the summaries are computed after the try block, so what they
\* raise reaches the caller.
generateTradeRecommendation_summariesOutside(ta, sa, va, abs) ==
  LET outcome == tryBlock(ta, sa, va, abs)
  IN  IF outcome.raised
           /\ outcome.message \notin
                Range(summarizeTechnicalAnalysisReads)
                \cup Range(summarizeVolumeAnalysisReads)
        THEN Completed(ErrorRecommendation(outcome.message))
        ELSE outcome

\* try { ... } catch (error) { return the neutral fallback }
generateTradeRecommendation(ta, sa, va, abs) ==
  LET outcome == tryBlock(ta, sa, va, abs)
  IN  IF outcome.raised
        THEN Completed(ErrorRecommendation(outcome.message))
        ELSE outcome

(***************************************************************************)
(* Inputs.  Level lists are what identifySupportResistance returns: at     *)
(* most MaxLevels cluster prices in ascending order, drawn here from a     *)
(* grid whose points are more than the clustering threshold apart.         *)
(***************************************************************************)
MaxLevels == 5

LevelGrid == {PriceBase + PriceStep * i : i \in 0 .. NumPrices - 1}

CurrentPrices == {PriceBase + PriceStep * i : i \in 1 .. NumCurrent}

RECURSIVE Ascending(_)
Ascending(S) ==
  IF S = {} THEN <<>>
  ELSE LET m == MinOf(S) IN <<m>> \o Ascending(S \ {m})

LevelLists ==
  {Ascending(S) : S \in {T \in SUBSET LevelGrid : Cardinality(T) <= MaxLevels}}

LevelRecords == [support : LevelLists, resistance : LevelLists]

SupportResistances(levelRecords, prices) ==
  {analyzeSupportsAndResistances(lv, cp) : lv \in levelRecords, cp \in prices}

TechnicalAnalyses(TS, MA, MO, OC, PS, MS, VO, SR) ==
  [trendStrength : TS,
   movingAverages : [maTrend : MA],
   momentum : [overallMomentum : MO],
   oscillators : [consensus : OC],
   patterns : [patternSignal : PS],
   marketStructure : [structure : MS],
   volatility : [level : VO],
   supportResistance : SR]

SentimentAnalyses(OS, SO, NE, FG) ==
  [overallSentiment : [classification : OS],
   social : [sentiment : SO],
   news : [sentiment : NE],
   fearGreedIndex : [classification : FG]]

VolumeAnalyses(VT, BS, VP) ==
  [volumeTrends : [classification : VT],
   buySellRatio : [pressureClassification : BS],
   volumeAtPrice : [volumeWallClassification : VP]]

\* One fixed level record, used where the levels are not what varies.
SomeLevels == {[support |-> <<PriceBase>>, resistance |-> <<>>]}

SomeSupportResistance ==
  SupportResistances(SomeLevels, {PriceBase + PriceStep})

(***************************************************************************)
(* Analyses in which every source of a category carries the same tone.     *)
(***************************************************************************)
Tones == {"strong bull", "bull", "flat", "bear", "strong bear"}

Pick(tone, strongBull, bull, flat, bear, strongBear) ==
  CASE tone = "strong bull" -> strongBull
    [] tone = "bull" -> bull
    [] tone = "flat" -> flat
    [] tone = "bear" -> bear
    [] OTHER -> strongBear

UniformTechnical(tone, level, sr) ==
  [trendStrength |->
     [direction |-> Pick(tone, "bullish", "bullish", "neutral", "bearish",
                         "bearish"),
      strength |-> Pick(tone, "strong", "moderate", "weak", "moderate",
                        "strong")],
   movingAverages |->
     [maTrend |-> Pick(tone, "strongly bullish", "bullish", "neutral",
                       "bearish", "strongly bearish")],
   momentum |->
     [overallMomentum |-> Pick(tone, "strongly bullish", "bullish", "neutral",
                               "bearish", "strongly bearish")],
   oscillators |->
     [consensus |-> Pick(tone, "bullish", "bullish", "neutral", "bearish",
                         "bearish")],
   patterns |->
     [patternSignal |-> Pick(tone, "bullish", "bullish", "neutral", "bearish",
                             "bearish")],
   marketStructure |->
     [structure |-> Pick(tone, "uptrend", "uptrend", "ranging", "downtrend",
                         "downtrend")],
   volatility |-> [level |-> level],
   supportResistance |-> sr]

UniformSentiment(tone) ==
  LET word == Pick(tone, "very bullish", "bullish", "neutral", "bearish",
                   "very bearish")
  IN  [overallSentiment |-> [classification |-> word],
       social |-> [sentiment |-> word],
       news |-> [sentiment |-> word],
       fearGreedIndex |->
         [classification |-> Pick(tone, "extreme greed", "greed", "neutral",
                                  "fear", "extreme fear")]]

UniformVolume(tone) ==
  [volumeTrends |->
     [classification |-> Pick(tone, "increasing", "increasing", "stable",
                              "decreasing", "decreasing")],
   buySellRatio |->
     [pressureClassification |-> Pick(tone, "buying", "buying", "neutral",
                                      "selling", "selling")],
   volumeAtPrice |->
     [volumeWallClassification |->
        Pick(tone, "strong support", "strong support", "balanced",
             "strong resistance", "strong resistance")]]

VolumeTones == {"bull", "flat", "bear"}

NoRecommendation == [recommendation |-> "none"]

NoCall == [fn |-> "none"]

NoResult == <<"none">>

Pending ==
  /\ recommendation = NoRecommendation
  /\ pc = "ready"
  /\ call = NoCall
  /\ result = NoResult

(***************************************************************************)
(* The call.                                                               *)
(***************************************************************************)
\* The arguments after the call.  The function and its helpers assign no
\* property of their arguments; every push is onto an array they created
\* (entries, takeProfitTargets, reasons), and the level arrays are only
\* indexed.
argumentsAfterCall_shiftsSupport(ta, sa, va) ==
  [technicalAnalysis |->
     [ta EXCEPT !.supportResistance.levels.support =
                  IF @ = <<>> THEN @ ELSE Tail(@)],
   sentimentAnalysis |-> sa,
   volumeAnalysis |-> va]

argumentsAfterCall(ta, sa, va) ==
  [technicalAnalysis |-> ta, sentimentAnalysis |-> sa, volumeAnalysis |-> va]

GenerateTradeRecommendation ==
  /\ pc = "ready"
  /\ LET outcome == generateTradeRecommendation(
                      technicalAnalysis, sentimentAnalysis, volumeAnalysis,
                      absent)
     IN  IF outcome.raised
           THEN /\ pc' = "thrown"
                /\ recommendation' = NoRecommendation
           ELSE /\ pc' = "returned"
                /\ recommendation' = outcome.value
  /\ LET after == argumentsAfterCall(technicalAnalysis, sentimentAnalysis,
                                     volumeAnalysis)
     IN  /\ technicalAnalysis' = after.technicalAnalysis
         /\ sentimentAnalysis' = after.sentimentAnalysis
         /\ volumeAnalysis' = after.volumeAnalysis
  /\ UNCHANGED <<absent, call, result>>

Next == GenerateTradeRecommendation

(***************************************************************************)
(* Spec: every technical analysis against uniform sentiment and volume,    *)
(* and every sentiment and volume analysis against a uniform technical one.*)
(***************************************************************************)
AllTechnicalAnalyses ==
  TechnicalAnalyses([direction : TrendDirections, strength : TrendStrengths],
                    MaTrends, OverallMomentums, OscillatorConsensuses,
                    PatternSignals, MarketStructures, {"medium"},
                    SomeSupportResistance)

AllSentimentAnalyses ==
  SentimentAnalyses(SentimentClasses, SentimentClasses, SentimentClasses,
                    FearGreedClasses)

AllVolumeAnalyses ==
  VolumeAnalyses(VolumeTrendClasses, PressureClasses, VolumeWallClasses)

Init ==
  /\ \/ /\ technicalAnalysis \in AllTechnicalAnalyses
        /\ sentimentAnalysis \in {UniformSentiment(t) : t \in Tones}
        /\ volumeAnalysis \in {UniformVolume(t) : t \in VolumeTones}
     \/ /\ technicalAnalysis \in
             {UniformTechnical(t, "medium", sr) :
                t \in Tones, sr \in SomeSupportResistance}
        /\ sentimentAnalysis \in AllSentimentAnalyses
        /\ volumeAnalysis \in AllVolumeAnalyses
  /\ absent = {}
  /\ Pending

Spec == Init /\ [][Next]_vars

(***************************************************************************)
(* SpecPlan: uniform analyses, in pairs of tones that give every           *)
(* confidence label in both directions, against every level record,        *)
(* current price and volatility level.                                     *)
(***************************************************************************)
PlanSentimentTones == {"strong bull", "flat", "strong bear"}

\* <<tone of the technical analysis, tone of the sentiment analysis>>
PlanTones ==
  {<<"strong bull", "strong bull">>, <<"strong bull", "flat">>,
   <<"bull", "flat">>, <<"flat", "strong bull">>,
   <<"flat", "flat">>,
   <<"flat", "strong bear">>, <<"bear", "flat">>,
   <<"strong bear", "flat">>, <<"strong bear", "strong bear">>}

InitPlan ==
  /\ \E tones \in PlanTones :
       /\ technicalAnalysis \in
            {UniformTechnical(tones[1], level, sr) :
               level \in VolatilityLevels,
               sr \in SupportResistances(LevelRecords, CurrentPrices)}
       /\ sentimentAnalysis = UniformSentiment(tones[2])
  /\ volumeAnalysis = UniformVolume("flat")
  /\ absent = {}
  /\ Pending

SpecPlan == InitPlan /\ [][Next]_vars

(***************************************************************************)
(* SpecFail: uniform analyses with up to MaxAbsent properties undefined.   *)
(***************************************************************************)
RECURSIVE SubsetsUpTo(_, _)
SubsetsUpTo(S, k) ==
  IF k = 0 THEN {{}}
  ELSE LET smaller == SubsetsUpTo(S, k - 1)
       IN  smaller \cup {A \cup {x} : A \in smaller, x \in S}

InitFail ==
  /\ technicalAnalysis \in
       {UniformTechnical(t, "medium", sr) :
          t \in Tones, sr \in SomeSupportResistance}
  /\ sentimentAnalysis \in {UniformSentiment(t) : t \in PlanSentimentTones}
  /\ volumeAnalysis \in {UniformVolume(t) : t \in VolumeTones}
  /\ absent \in SubsetsUpTo(AbsentPaths, MaxAbsent)
  /\ Pending

SpecFail == InitFail /\ [][Next]_vars

(***************************************************************************)
(* Properties.                                                             *)
(***************************************************************************)
Returned == pc = "returned"

IsPlan == Returned /\ recommendation.recommendation \in {"long", "short"}

returnedDirection == recommendation.recommendation

RECURSIVE SumAllocation(_)
SumAllocation(items) ==
  IF items = <<>> THEN 0
  ELSE Head(items).allocation + SumAllocation(Tail(items))

Prices(items) == [i \in DOMAIN items |-> items[i].price]

Allocations(items) == [i \in DOMAIN items |-> items[i].allocation]

\* The thirteen vote sources and the vote each casts in the current inputs.
BullishSources ==
  {src \in {"trend"} : technicalAnalysis.trendStrength.direction = "bullish"}
  \cup {src \in {"movingAverages"} :
          technicalAnalysis.movingAverages.maTrend
            \in {"bullish", "strongly bullish"}}
  \cup {src \in {"momentum"} :
          technicalAnalysis.momentum.overallMomentum
            \in {"bullish", "strongly bullish"}}
  \cup {src \in {"oscillators"} :
          technicalAnalysis.oscillators.consensus = "bullish"}
  \cup {src \in {"patterns"} :
          technicalAnalysis.patterns.patternSignal = "bullish"}
  \cup {src \in {"marketStructure"} :
          technicalAnalysis.marketStructure.structure = "uptrend"}
  \cup {src \in {"overallSentiment"} :
          sentimentAnalysis.overallSentiment.classification
            \in {"bullish", "very bullish"}}
  \cup {src \in {"social"} :
          sentimentAnalysis.social.sentiment \in {"bullish", "very bullish"}}
  \cup {src \in {"news"} :
          sentimentAnalysis.news.sentiment \in {"bullish", "very bullish"}}
  \cup {src \in {"fearGreedIndex"} :
          sentimentAnalysis.fearGreedIndex.classification = "extreme greed"}
  \cup {src \in {"volumeTrends"} :
          volumeAnalysis.volumeTrends.classification = "increasing"}
  \cup {src \in {"buySellRatio"} :
          volumeAnalysis.buySellRatio.pressureClassification = "buying"}
  \cup {src \in {"volumeAtPrice"} :
          volumeAnalysis.volumeAtPrice.volumeWallClassification
            = "strong support"}

BearishSources ==
  {src \in {"trend"} : technicalAnalysis.trendStrength.direction = "bearish"}
  \cup {src \in {"movingAverages"} :
          technicalAnalysis.movingAverages.maTrend
            \in {"bearish", "strongly bearish"}}
  \cup {src \in {"momentum"} :
          technicalAnalysis.momentum.overallMomentum
            \in {"bearish", "strongly bearish"}}
  \cup {src \in {"oscillators"} :
          technicalAnalysis.oscillators.consensus = "bearish"}
  \cup {src \in {"patterns"} :
          technicalAnalysis.patterns.patternSignal = "bearish"}
  \cup {src \in {"marketStructure"} :
          technicalAnalysis.marketStructure.structure = "downtrend"}
  \cup {src \in {"overallSentiment"} :
          sentimentAnalysis.overallSentiment.classification
            \in {"bearish", "very bearish"}}
  \cup {src \in {"social"} :
          sentimentAnalysis.social.sentiment \in {"bearish", "very bearish"}}
  \cup {src \in {"news"} :
          sentimentAnalysis.news.sentiment \in {"bearish", "very bearish"}}
  \cup {src \in {"fearGreedIndex"} :
          sentimentAnalysis.fearGreedIndex.classification = "extreme fear"}
  \cup {src \in {"volumeTrends"} :
          volumeAnalysis.volumeTrends.classification = "decreasing"}
  \cup {src \in {"buySellRatio"} :
          volumeAnalysis.buySellRatio.pressureClassification = "selling"}
  \cup {src \in {"volumeAtPrice"} :
          volumeAnalysis.volumeAtPrice.volumeWallClassification
            = "strong resistance"}

bullishVotes == Cardinality(BullishSources)

bearishVotes == Cardinality(BearishSources)

\* C1: the returned direction is "long" iff bullishVotes - bearishVotes >= 3,
\* "short" iff bearishVotes - bullishVotes >= 3, and "neutral" whenever the
\* two vote counts differ by less than 3.
C1_DirectionByMargin ==
  Returned =>
    /\ (returnedDirection = "long") <=> (bullishVotes - bearishVotes >= 3)
    /\ (returnedDirection = "short") <=> (bearishVotes - bullishVotes >= 3)
    /\ (bullishVotes - bearishVotes < 3 /\ bearishVotes - bullishVotes < 3)
         => returnedDirection = "neutral"

\* C1 witness: a long result at a margin of exactly 3 with opposing votes.
C1_Witness ==
  /\ Returned
  /\ returnedDirection = "long"
  /\ bullishVotes - bearishVotes = 3
  /\ bearishVotes >= 2

\* C2: in every long or short plan the allocations of the entries sum to 1.0.
C2_EntryAllocationsSumToOne ==
  IsPlan => SumAllocation(recommendation.entries) = AllocationWhole

\* C3: in every long or short plan the allocations of the take-profit
\* targets sum to 1.0.
C3_TakeProfitAllocationsSumToOne ==
  IsPlan => SumAllocation(recommendation.takeProfitTargets) = AllocationWhole

\* C4: with no resistance level a long plan has exactly the three targets
\* currentPrice x 1.03, x 1.05, x 1.10 with allocations 0.3, 0.3, 0.4; with
\* no support level a short plan has currentPrice x 0.97, x 0.95, x 0.90 with
\* the same allocations.
C4_PercentageLadder ==
  IsPlan =>
    LET sr == technicalAnalysis.supportResistance
        cp == sr.currentPrice
        targets == recommendation.takeProfitTargets
    IN  /\ (returnedDirection = "long" /\ Len(sr.levels.resistance) = 0)
             => /\ Prices(targets) = <<cp * 103, cp * 105, cp * 110>>
                /\ Allocations(targets) = <<30, 30, 40>>
        /\ (returnedDirection = "short" /\ Len(sr.levels.support) = 0)
             => /\ Prices(targets) = <<cp * 97, cp * 95, cp * 90>>
                /\ Allocations(targets) = <<30, 30, 40>>

\* C4 witness: the long plan at currentPrice 100 without resistance levels,
\* with targets 103, 105 and 110.
C4_Witness ==
  /\ IsPlan
  /\ returnedDirection = "long"
  /\ technicalAnalysis.supportResistance.currentPrice = 100
  /\ technicalAnalysis.supportResistance.levels.resistance = <<>>
  /\ Prices(recommendation.takeProfitTargets)
       = <<103 * PriceScale, 105 * PriceScale, 110 * PriceScale>>

\* C5 as stated: 5 bullish votes and 1 bearish vote give "long" with a
\* confidence of "moderate" or higher.
C5_FiveToOneAtLeastModerate ==
  (Returned /\ bullishVotes = 5 /\ bearishVotes = 1)
    => /\ returnedDirection = "long"
       /\ recommendation.confidence \in {"moderate", "high", "very high"}

\* The bullish voters that also add to the confidence score whatever their
\* intensity.
ScoringBullishSources ==
  BullishSources
  \cap {"momentum", "movingAverages", "overallSentiment", "buySellRatio",
        "volumeAtPrice"}

\* C5 amended: 5 bullish votes and 1 bearish vote give "long"; the confidence
\* is "moderate" or higher when at least three of the bullish votes come from
\* momentum, moving-average posture, overall sentiment, buy/sell pressure or
\* the volume wall.
C5_FiveToOneLong ==
  (Returned /\ bullishVotes = 5 /\ bearishVotes = 1)
    => /\ returnedDirection = "long"
       /\ Cardinality(ScoringBullishSources) >= 3
            => recommendation.confidence \in {"moderate", "high", "very high"}

\* C5 witness: a 5-to-1 long plan whose confidence is exactly "moderate" on
\* three scoring voters.
C5_Witness ==
  /\ IsPlan
  /\ bullishVotes = 5
  /\ bearishVotes = 1
  /\ Cardinality(ScoringBullishSources) = 3
  /\ recommendation.confidence = "moderate"

\* C6: no exception reaches the caller; whenever a step raises, the fixed
\* neutral fallback (neutral, low, reason carrying the error message) is
\* returned and it carries no part of a plan.
C6_FailureGivesFallback ==
  /\ pc # "thrown"
  /\ (Returned
        /\ tryBlock(technicalAnalysis, sentimentAnalysis, volumeAnalysis,
                    absent).raised)
       => /\ DOMAIN recommendation = {"recommendation", "confidence", "reason"}
          /\ recommendation.recommendation = "neutral"
          /\ recommendation.confidence = "low"
          /\ Len(recommendation.reason) = 2
          /\ recommendation.reason[1] = "Error generating recommendation: "
          /\ recommendation.reason[2] \in absent

\* C6 witness: a call whose last step (a summary) raised after entries,
\* targets, stop and leverage had been computed, answered by the fallback.
C6_Witness ==
  /\ Returned
  /\ absent = {"volumeAnalysis.volumeTrends.volumes"}
  /\ determineTradeDirection(technicalAnalysis, sentimentAnalysis,
                             volumeAnalysis) = "long"
  /\ recommendation.recommendation = "neutral"
  /\ recommendation.reason[2] = "volumeAnalysis.volumeTrends.volumes"

\* The confidence score of the returned plan.
planScore ==
  confidenceScore(technicalAnalysis, sentimentAnalysis, volumeAnalysis,
                  returnedDirection)

\* C7: the score lies in 0..10 and its label is "low" below 3, "moderate" for
\* 3-4, "high" for 5-6 and "very high" from 7.
C7_ConfidenceBands ==
  IsPlan =>
    /\ planScore \in 0 .. 10
    /\ (planScore < 3) <=> (recommendation.confidence = "low")
    /\ (planScore \in 3 .. 4) <=> (recommendation.confidence = "moderate")
    /\ (planScore \in 5 .. 6) <=> (recommendation.confidence = "high")
    /\ (planScore >= 7) <=> (recommendation.confidence = "very high")

\* C7 witness: a plan whose score is exactly 3, the lowest "moderate" score.
C7_Witness ==
  /\ IsPlan
  /\ planScore = 3
  /\ recommendation.confidence = "moderate"

\* C8: a trend of strength "strong" or "very strong" in the trade direction,
\* "strongly" agreeing momentum, "strongly" agreeing moving averages and
\* "very" agreeing overall sentiment each add 2; plain agreement of momentum,
\* moving averages or overall sentiment adds 1; a disagreeing category adds 0.
C8_StrongAgreementAddsTwo ==
  IsPlan =>
    LET ta == technicalAnalysis
        sa == sentimentAnalysis
        word == IF returnedDirection = "long" THEN "bullish" ELSE "bearish"
        strongly == IF returnedDirection = "long" THEN "strongly bullish"
                    ELSE "strongly bearish"
        very == IF returnedDirection = "long" THEN "very bullish"
                ELSE "very bearish"
    IN  /\ (ta.trendStrength.direction = word
              /\ ta.trendStrength.strength \in {"strong", "very strong"})
             => trendScore(ta, returnedDirection) = 2
        /\ ta.trendStrength.direction # word
             => trendScore(ta, returnedDirection) = 0
        /\ momentumScore(ta, returnedDirection)
             = (CASE ta.momentum.overallMomentum = strongly -> 2
                  [] ta.momentum.overallMomentum = word -> 1
                  [] OTHER -> 0)
        /\ maScore(ta, returnedDirection)
             = (CASE ta.movingAverages.maTrend = strongly -> 2
                  [] ta.movingAverages.maTrend = word -> 1
                  [] OTHER -> 0)
        /\ sentimentScore(sa, returnedDirection)
             = (CASE sa.overallSentiment.classification = very -> 2
                  [] sa.overallSentiment.classification = word -> 1
                  [] OTHER -> 0)

\* What each confidence label and volatility level give: round(base x
\* multiplier) with halves rounded up.
LeverageTable ==
  [c \in {"very high", "high", "moderate", "low"} |->
     [v \in VolatilityLevels |->
        CASE c = "very high" ->
               (CASE v = "low" -> 8 [] v = "high" -> 3 [] OTHER -> 5)
          [] c = "high" ->
               (CASE v = "low" -> 5 [] v = "high" -> 2 [] OTHER -> 3)
          [] c = "moderate" ->
               (CASE v = "low" -> 3 [] v = "high" -> 1 [] OTHER -> 2)
          [] OTHER ->
               (CASE v = "low" -> 2 [] v = "high" -> 1 [] OTHER -> 1)]]

\* C9: the recommended leverage is round(base x multiplier) for the plan's
\* confidence and the volatility level, an integer between 1 and 8.
C9_LeverageRounded ==
  IsPlan =>
    /\ recommendation.leverage.recommended
         = LeverageTable[recommendation.confidence]
                        [technicalAnalysis.volatility.level]
    /\ recommendation.leverage.recommended \in 1 .. 8

\* C9 witness: low confidence under high volatility still gives leverage 1.
C9_Witness ==
  /\ IsPlan
  /\ recommendation.confidence = "low"
  /\ technicalAnalysis.volatility.level = "high"
  /\ recommendation.leverage.recommended = 1

\* C10: the stop is 2% beyond the nearest opposing level when one exists
\* (long: 0.98 x the nearest support below the price; short: 1.02 x the
\* nearest resistance above it) and otherwise 5% beyond the extreme entry
\* price (long: 0.95 x the lowest; short: 1.05 x the highest).
C10_StopPlacement ==
  IsPlan =>
    LET sr == technicalAnalysis.supportResistance
        below == {l \in Range(sr.levels.support) : l < sr.currentPrice}
        above == {l \in Range(sr.levels.resistance) : l > sr.currentPrice}
        entryPrices == EntryPrices(recommendation.entries)
        stop == recommendation.stopLoss.price
    IN  /\ (returnedDirection = "long" /\ below # {})
             => stop = 98 * MaxOf(below)
        /\ (returnedDirection = "long" /\ below = {})
             => stop * PriceScale = 95 * MinOf(entryPrices)
        /\ (returnedDirection = "short" /\ above # {})
             => stop = 102 * MinOf(above)
        /\ (returnedDirection = "short" /\ above = {})
             => stop * PriceScale = 105 * MaxOf(entryPrices)

\* C10 witness: a short plan with a resistance above the price, the stop 2%
\* above the nearest one although a higher entry exists.
C10_Witness ==
  /\ IsPlan
  /\ returnedDirection = "short"
  /\ Len(recommendation.entries) = 3
  /\ technicalAnalysis.supportResistance.nearestResistance # Null
  /\ recommendation.stopLoss.price
       = 102 * technicalAnalysis.supportResistance.nearestResistance

(***************************************************************************)
(* Data layer.  The functions below are called on series of integers; a    *)
(* number they compute is held as the ratio <<numerator, denominator>>     *)
(* with a positive denominator, and a null entry as NullEntry.             *)
(***************************************************************************)
NullEntry == <<>>

Undefined == <<-1>>

IsNumber(x) == Len(x) >= 2

NoArguments ==
  /\ technicalAnalysis = NoCall
  /\ sentimentAnalysis = NoCall
  /\ volumeAnalysis = NoCall
  /\ absent = {}
  /\ recommendation = NoRecommendation
  /\ pc = "ready"
  /\ result = NoResult

RECURSIVE SumSeq(_)
SumSeq(values) ==
  IF values = <<>> THEN 0 ELSE Head(values) + SumSeq(Tail(values))

RECURSIVE SeqsUpTo(_, _)
SeqsUpTo(S, n) ==
  IF n = 0 THEN {<<>>}
  ELSE LET shorter == SeqsUpTo(S, n - 1)
       IN  shorter \cup {Append(q, x) : q \in shorter, x \in S}

(***************************************************************************)
(* clusterLevels: the extrema sorted by value, a level joining the current *)
(* cluster while it is closer than the threshold to the cluster's last     *)
(* member, each cluster replaced by the mean of its members.               *)
(***************************************************************************)
MaxExtrema == 4       \* longest list of extrema
NumExtremaValues == 6 \* number of distinct extremum values
ExtremaBase == 200    \* lowest extremum value

ClusterThreshold == <<1, 100>>

RECURSIVE SortAscending(_)
SortAscending(values) ==
  IF values = <<>> THEN <<>>
  ELSE LET least == MinOf(Range(values))
           at == CHOOSE i \in DOMAIN values :
                   /\ values[i] = least
                   /\ \A j \in 1..(i - 1) : values[j] # least
           rest == [j \in 1..(Len(values) - 1) |->
                      IF j < at THEN values[j] ELSE values[j + 1]]
       IN  <<least>> \o SortAscending(rest)

ClusterMean(currentCluster) == <<SumSeq(currentCluster), Len(currentCluster)>>

joinsCluster_fromFirst(currentCluster, currentLevel, threshold) ==
  LET firstLevel == currentCluster[1]
  IN  (currentLevel - firstLevel) * threshold[2] < threshold[1] * firstLevel

joinsCluster(currentCluster, currentLevel, threshold) ==
  LET lastLevel == currentCluster[Len(currentCluster)]
  IN  (currentLevel - lastLevel) * threshold[2] < threshold[1] * lastLevel

RECURSIVE clusterLoop(_, _, _, _, _)
clusterLoop(sortedLevels, i, currentCluster, clusters, threshold) ==
  IF i > Len(sortedLevels)
    THEN IF Len(currentCluster) > 0
           THEN Append(clusters, ClusterMean(currentCluster))
           ELSE clusters
    ELSE IF joinsCluster(currentCluster, sortedLevels[i], threshold)
           THEN clusterLoop(sortedLevels, i + 1,
                            Append(currentCluster, sortedLevels[i]),
                            clusters, threshold)
           ELSE clusterLoop(sortedLevels, i + 1, <<sortedLevels[i]>>,
                            Append(clusters, ClusterMean(currentCluster)),
                            threshold)

clusterLevels(levels, threshold) ==
  IF Len(levels) = 0 THEN <<>>
  ELSE LET sortedLevels == SortAscending(levels)
       IN  clusterLoop(sortedLevels, 2, <<sortedLevels[1]>>, <<>>, threshold)

(***************************************************************************)
(* findLocalExtrema: the center of each full window of 2 * windowSize + 1  *)
(* points is an extremum when it equals the window's maximum (minimum).    *)
(* The index reported is the 0-based position in the data.                 *)
(***************************************************************************)
DefaultWindowSize == 5

findLocalExtrema(data, findMaxima, windowSize) ==
  LET centers == [k \in 1..(Len(data) - 2 * windowSize) |-> k + windowSize]
      window(i) == {data[j] : j \in (i - windowSize)..(i + windowSize)}
      isExtremum(i) ==
        IF findMaxima
          THEN data[i] = MaxOf(window(i))
          ELSE data[i] = MinOf(window(i))
      extrema == SelectSeq(centers, isExtremum)
  IN  [k \in DOMAIN extrema |->
         [value |-> data[extrema[k]], index |-> extrema[k] - 1]]

(***************************************************************************)
(* identifySupportResistance: the local maxima of the highs and the local  *)
(* minima of the lows, clustered, the first five clusters of each kept.    *)
(***************************************************************************)
TopLevels == 5

ValuesOf(extrema) == [k \in DOMAIN extrema |-> extrema[k].value]

identifySupportResistance(klines) ==
  LET highs == [i \in DOMAIN klines |-> klines[i].high]
      lows == [i \in DOMAIN klines |-> klines[i].low]
      resistanceLevels == findLocalExtrema(highs, TRUE, DefaultWindowSize)
      supportLevels == findLocalExtrema(lows, FALSE, DefaultWindowSize)
      clusteredResistance ==
        clusterLevels(ValuesOf(resistanceLevels), ClusterThreshold)
      clusteredSupport ==
        clusterLevels(ValuesOf(supportLevels), ClusterThreshold)
      firstLevels(clustered) ==
        SubSeq(clustered, 1,
               IF Len(clustered) < TopLevels THEN Len(clustered)
               ELSE TopLevels)
  IN  [resistance |-> firstLevels(clusteredResistance),
       support |-> firstLevels(clusteredSupport)]

ExtremaValues == ExtremaBase..(ExtremaBase + NumExtremaValues - 1)

ExtremaLists == SeqsUpTo(ExtremaValues, MaxExtrema)

\* Data for findLocalExtrema: short series over few values, so that ties
\* inside a window occur, with small window radii.
MaxData == 5       \* longest data series
NumDataValues == 3 \* number of distinct data values
MaxWindow == 2     \* largest window radius

DataSeries == SeqsUpTo(1..NumDataValues, MaxData)

\* Daily klines for identifySupportResistance: a peak candle (a high above
\* and a low below its neighbours') after every DefaultWindowSize quiet
\* candles, and DefaultWindowSize quiet candles at the end.  The peaks are
\* far enough apart for each to make a cluster of its own.
MaxPeaks == 6      \* most peak candles in a series
NumPeakValues == 7 \* number of distinct peak highs
PeakBase == 600    \* lowest peak high
PeakStep == 10     \* distance between two peak highs

QuietHigh == PeakBase - PeakStep

QuietLow == QuietHigh - PeakStep

PeakValues == {PeakBase + PeakStep * k : k \in 0..(NumPeakValues - 1)}

RECURSIVE Descending(_)
Descending(S) ==
  IF S = {} THEN <<>>
  ELSE LET m == MaxOf(S) IN <<m>> \o Descending(S \ {m})

PeakLists ==
  LET chosen == {T \in SUBSET PeakValues : Cardinality(T) <= MaxPeaks}
  IN  {Ascending(T) : T \in chosen} \cup {Descending(T) : T \in chosen}

Kline(high, low, close) == [high |-> high, low |-> low, close |-> close]

PeakKlines(peaks, lastClose) ==
  LET every == DefaultWindowSize + 1
      length == every * Len(peaks) + DefaultWindowSize
  IN  [i \in 1..length |->
         IF i % every = 0
           THEN Kline(peaks[i \div every],
                      QuietLow - (peaks[i \div every] - QuietHigh),
                      QuietHigh)
           ELSE Kline(QuietHigh, QuietLow,
                      IF i = length THEN lastClose ELSE QuietLow)]

KlineSeries ==
  {PeakKlines(peaks, lastClose) :
     peaks \in PeakLists, lastClose \in {QuietLow, QuietHigh}}

ClusterCalls ==
  {[fn |-> "clusterLevels", levels |-> l] : l \in ExtremaLists}
  \cup {[fn |-> "findLocalExtrema", data |-> d, findMaxima |-> m,
         windowSize |-> w] :
          d \in DataSeries, m \in BOOLEAN, w \in 1..MaxWindow}
  \cup {[fn |-> "identifySupportResistance", klines |-> k] :
          k \in KlineSeries}

ClusterLevels ==
  /\ pc = "ready"
  /\ call.fn = "clusterLevels"
  /\ result' = clusterLevels(call.levels, ClusterThreshold)
  /\ pc' = "returned"
  /\ UNCHANGED <<technicalAnalysis, sentimentAnalysis, volumeAnalysis,
                 absent, recommendation, call>>

FindLocalExtrema ==
  /\ pc = "ready"
  /\ call.fn = "findLocalExtrema"
  /\ result' = findLocalExtrema(call.data, call.findMaxima, call.windowSize)
  /\ pc' = "returned"
  /\ UNCHANGED <<technicalAnalysis, sentimentAnalysis, volumeAnalysis,
                 absent, recommendation, call>>

IdentifySupportResistance ==
  /\ pc = "ready"
  /\ call.fn = "identifySupportResistance"
  /\ result' = identifySupportResistance(call.klines)
  /\ pc' = "returned"
  /\ UNCHANGED <<technicalAnalysis, sentimentAnalysis, volumeAnalysis,
                 absent, recommendation, call>>

NextCluster ==
  \/ ClusterLevels
  \/ FindLocalExtrema
  \/ IdentifySupportResistance

InitCluster ==
  /\ call \in ClusterCalls
  /\ NoArguments

SpecCluster == InitCluster /\ [][NextCluster]_vars

\* C11: for every non-empty list of positive extrema the levels returned
\* by clusterLevels are ascending, and two consecutive levels a < b are
\* at least the threshold apart: (b - a) / a >= 0.01.
C11_ClustersApart ==
  (pc = "returned" /\ call.fn = "clusterLevels" /\ Len(call.levels) > 0)
    => /\ Len(result) > 0
       /\ \A i \in 1..(Len(result) - 1) :
            LET a == result[i]
                b == result[i + 1]
            IN  /\ a[1] * b[2] < b[1] * a[2]
                /\ ClusterThreshold[2] * (b[1] * a[2] - a[1] * b[2])
                     >= ClusterThreshold[1] * a[1] * b[2]

\* Two clusters came out, one of them the mean of several extrema.
C11_Witness ==
  /\ pc = "returned"
  /\ call.fn = "clusterLevels"
  /\ Len(result) >= 2
  /\ \E i \in DOMAIN result : result[i][2] >= 2
  /\ \E i \in DOMAIN call.levels, j \in DOMAIN call.levels :
       i < j /\ call.levels[i] > call.levels[j]

(***************************************************************************)
(* JavaScript numbers.  A number is the ratio <<n, d>> in lowest terms     *)
(* with d >= 0; d = 0 holds the values a division by zero produces:        *)
(* <<0, 0>> is NaN, <<1, 0>> is Infinity and <<-1, 0>> is -Infinity.       *)
(* Rounding of the binary representation is not modelled.                  *)
(***************************************************************************)
Abs(x) == IF x < 0 THEN -x ELSE x

Sign(x) == IF x < 0 THEN -1 ELSE IF x > 0 THEN 1 ELSE 0

RECURSIVE GCD(_, _)
GCD(a, b) == IF b = 0 THEN a ELSE GCD(b, a % b)

Ratio(n, d) ==
  IF d = 0 THEN <<Sign(n), 0>>
  ELSE LET g == GCD(Abs(n), Abs(d))
       IN  <<(Sign(d) * n) \div g, Abs(d) \div g>>

N(x) == <<x, 1>>

NaN == <<0, 0>>

Plus(a, b) ==
  IF a[2] = 0 /\ b[2] = 0 THEN (IF a[1] = b[1] THEN a ELSE NaN)
  ELSE IF a[2] = 0 THEN a
  ELSE IF b[2] = 0 THEN b
  ELSE Ratio(a[1] * b[2] + b[1] * a[2], a[2] * b[2])

Negated(a) == <<-a[1], a[2]>>

Minus(a, b) == Plus(a, Negated(b))

Times(a, b) == Ratio(a[1] * b[1], a[2] * b[2])

Inverse(b) == IF b[1] < 0 THEN <<-b[2], -b[1]>> ELSE <<b[2], b[1]>>

Over(a, b) == Times(a, Inverse(b))

Less(a, b) ==
  IF a = NaN \/ b = NaN THEN FALSE
  ELSE IF a[2] = 0 /\ b[2] = 0 THEN a[1] < b[1]
  ELSE IF a[2] = 0 THEN a[1] < 0
  ELSE IF b[2] = 0 THEN b[1] > 0
  ELSE a[1] * b[2] < b[1] * a[2]

RECURSIVE Sum(_)
Sum(values) ==
  IF values = <<>> THEN N(0) ELSE Plus(Head(values), Sum(Tail(values)))

Min2(a, b) == IF a < b THEN a ELSE b

Max2(a, b) == IF a > b THEN a ELSE b

\* array.slice(from, to) with 0 <= from, on a 1-based sequence
Slice(array, from, to) ==
  SubSeq(array, from + 1, Min2(to, Len(array)))

Nulls(n) == [i \in 1..n |-> NullEntry]

(***************************************************************************)
(* calculateMovingAverages (simple moving average).                        *)
(***************************************************************************)
calculateMovingAverages_shortWindow(data, period) ==
  [i \in 1..Len(data) |->
     IF i - 1 < period - 1 THEN NullEntry
     ELSE Over(Sum(Slice(data, i - period + 1, i)), N(period))]

calculateMovingAverages(data, period) ==
  [i \in 1..Len(data) |->
     IF i - 1 < period - 1 THEN NullEntry
     ELSE Over(Sum(Slice(data, i - 1 - period + 1, i - 1 + 1)), N(period))]

(***************************************************************************)
(* calculateEMA: the mean of the first `period` prices, then the           *)
(* exponential recurrence, behind period - 1 nulls.                        *)
(***************************************************************************)
RECURSIVE emaLoop(_, _, _, _)
emaLoop(prices, multiplier, i, ema) ==
  IF i >= Len(prices) THEN ema
  ELSE LET last == ema[Len(ema)]
       IN  emaLoop(prices, multiplier, i + 1,
                   Append(ema, Plus(Times(Minus(prices[i + 1], last),
                                          multiplier), last)))

calculateEMA(prices, period) ==
  LET multiplier == Over(N(2), N(period + 1))
      sma == Over(Sum(Slice(prices, 0, period)), N(period))
  IN  Nulls(period - 1) \o emaLoop(prices, multiplier, period, <<sma>>)

(***************************************************************************)
(* calculateRSI with Wilder's smoothing.                                   *)
(***************************************************************************)
Hundred == N(100)

rsiValue_lossless(avgGain, avgLoss) == Hundred

rsiValue(avgGain, avgLoss) ==
  IF avgLoss = N(0) THEN Hundred
  ELSE LET rs == Over(avgGain, avgLoss)
       IN  Minus(Hundred, Over(Hundred, Plus(N(1), rs)))

RECURSIVE rsiLoop(_, _, _, _, _, _, _, _)
rsiLoop(prices, gains, losses, period, i, avgGain, avgLoss, rsiValues) ==
  IF i >= Len(prices) THEN rsiValues
  ELSE LET nextGain == Over(Plus(Times(avgGain, N(period - 1)), gains[i]),
                            N(period))
           nextLoss == Over(Plus(Times(avgLoss, N(period - 1)), losses[i]),
                            N(period))
       IN  rsiLoop(prices, gains, losses, period, i + 1, nextGain, nextLoss,
                   Append(rsiValues, rsiValue(nextGain, nextLoss)))

calculateRSI(prices, period) ==
  IF Len(prices) < period + 1 THEN Nulls(Len(prices))
  ELSE LET deltas == [i \in 1..(Len(prices) - 1) |->
                        Minus(prices[i + 1], prices[i])]
           gains == [i \in DOMAIN deltas |->
                       IF Less(N(0), deltas[i]) THEN deltas[i] ELSE N(0)]
           losses == [i \in DOMAIN deltas |->
                        IF Less(deltas[i], N(0)) THEN Negated(deltas[i])
                        ELSE N(0)]
           avgGain == Over(Sum(Slice(gains, 0, period)), N(period))
           avgLoss == Over(Sum(Slice(losses, 0, period)), N(period))
       IN  rsiLoop(prices, gains, losses, period, period + 1, avgGain,
                   avgLoss, <<NullEntry, rsiValue(avgGain, avgLoss)>>)

(***************************************************************************)
(* calculateMACD.  Array(length) raises a RangeError for a negative        *)
(* length, and null is 0 in a subtraction.                                 *)
(***************************************************************************)
ToNumber(x) ==
  IF x = NullEntry THEN N(0) ELSE IF x = Undefined THEN NaN ELSE x

At(array, i) == IF i + 1 \in DOMAIN array THEN array[i + 1] ELSE Undefined

Last(array) == At(array, Len(array) - 1)

Return(value) == [raised |-> FALSE, value |-> value]

RangeError == [raised |-> TRUE, value |-> "RangeError: Invalid array length"]

calculateMACD(prices, fastPeriod, slowPeriod, signalPeriod) ==
  LET fastEMA == calculateEMA(prices, fastPeriod)
      slowEMA == calculateEMA(prices, slowPeriod)
      macdLine == [i \in 1..Len(prices) |->
                     IF i - 1 < slowPeriod - 1 THEN NullEntry
                     ELSE Minus(ToNumber(fastEMA[i]), ToNumber(slowEMA[i]))]
      validMacdValues == SelectSeq(macdLine, LAMBDA value : value # NullEntry)
      signalLine == calculateEMA(validMacdValues, signalPeriod)
      padding == Len(macdLine) - Len(signalLine)
      paddedSignalLine == Nulls(padding) \o signalLine
      histogram == [i \in 1..Len(macdLine) |->
                      IF macdLine[i] = NullEntry
                         \/ At(paddedSignalLine, i - 1) = NullEntry
                        THEN NullEntry
                        ELSE Minus(macdLine[i],
                                   ToNumber(At(paddedSignalLine, i - 1)))]
  IN  IF padding < 0 THEN RangeError
      ELSE Return([macdLine |-> macdLine, signalLine |-> paddedSignalLine,
                   histogram |-> histogram])

(***************************************************************************)
(* calculateBollingerBands.  The standard deviation is the root of a       *)
(* variance; a band middle + stdDev * sqrt(variance) is held as            *)
(* <<middle, stdDev, variance>>, the lower band with -stdDev.              *)
(***************************************************************************)
Variance(values) ==
  LET mean == Over(Sum(values), N(Len(values)))
      squaredDifferences == [i \in DOMAIN values |->
                               Times(Minus(values[i], mean),
                                     Minus(values[i], mean))]
  IN  Over(Sum(squaredDifferences), N(Len(values)))

calculateBollingerBands(prices, period, stdDev) ==
  LET middle == calculateMovingAverages(prices, period)
      band(i, width) ==
        IF i - 1 < period - 1 THEN NullEntry
        ELSE <<middle[i], width,
               Variance(Slice(prices, i - 1 - period + 1, i - 1 + 1))>>
  IN  [upper |-> [i \in 1..Len(prices) |-> band(i, stdDev)],
       middle |-> middle,
       lower |-> [i \in 1..Len(prices) |-> band(i, -stdDev)]]

(***************************************************************************)
(* calculateATR, calculateStochastic and calculateCCI on candles           *)
(* [high, low, close].                                                     *)
(***************************************************************************)
AbsOf(a) == IF a[1] < 0 THEN Negated(a) ELSE a

MaxNumber(a, b) == IF Less(a, b) THEN b ELSE a

MinNumber(a, b) == IF Less(b, a) THEN b ELSE a

RECURSIVE Highest(_)
Highest(values) ==
  IF Len(values) = 1 THEN values[1]
  ELSE MaxNumber(Head(values), Highest(Tail(values)))

RECURSIVE Lowest(_)
Lowest(values) ==
  IF Len(values) = 1 THEN values[1]
  ELSE MinNumber(Head(values), Lowest(Tail(values)))

calculateATR(klines, period) ==
  LET trueRanges == [i \in 1..Len(klines) |->
        IF i = 1 THEN Minus(klines[i].high, klines[i].low)
        ELSE LET highLow == Minus(klines[i].high, klines[i].low)
                 highPrevClose ==
                   AbsOf(Minus(klines[i].high, klines[i - 1].close))
                 lowPrevClose ==
                   AbsOf(Minus(klines[i].low, klines[i - 1].close))
             IN  Highest(<<highLow, highPrevClose, lowPrevClose>>)]
  IN  [i \in 1..Len(trueRanges) |->
         IF i - 1 < period - 1 THEN NullEntry
         ELSE Over(Sum(Slice(trueRanges, i - 1 - period + 1, i - 1 + 1)),
                   N(period))]

\* array.slice(-count): the last `count` elements
SliceLast(array, count) ==
  SubSeq(array, Max2(Len(array) - count, 0) + 1, Len(array))

calculateStochastic(klines, kPeriod, dPeriod) ==
  IF Len(klines) < kPeriod THEN [k |-> NullEntry, d |-> NullEntry]
  ELSE LET recentKlines == SliceLast(klines, kPeriod + dPeriod)
           kValues == [j \in 1..(Len(recentKlines) - (kPeriod - 1)) |->
             LET i == j + kPeriod - 2
                 periodKlines == Slice(recentKlines, i - kPeriod + 1, i + 1)
                 lowestLow ==
                   Lowest([x \in DOMAIN periodKlines |-> periodKlines[x].low])
                 highestHigh ==
                   Highest([x \in DOMAIN periodKlines |->
                              periodKlines[x].high])
             IN  Times(Over(Minus(recentKlines[i + 1].close, lowestLow),
                            Minus(highestHigh, lowestLow)), Hundred)]
           dValues == [j \in 1..(Len(kValues) - (dPeriod - 1)) |->
             LET i == j + dPeriod - 2
             IN  Over(Sum(Slice(kValues, i - dPeriod + 1, i + 1)),
                      N(dPeriod))]
       IN  [k |-> Last(kValues), d |-> Last(dValues)]

calculateCCI(klines, period) ==
  IF Len(klines) < period THEN NullEntry
  ELSE LET recentKlines == SliceLast(klines, period)
           typicalPrices == [i \in DOMAIN recentKlines |->
             Over(Plus(Plus(recentKlines[i].high, recentKlines[i].low),
                       recentKlines[i].close), N(3))]
           smaTypicalPrice == Over(Sum(typicalPrices), N(period))
           meanDeviation ==
             Over(Sum([i \in DOMAIN typicalPrices |->
                         AbsOf(Minus(typicalPrices[i], smaTypicalPrice))]),
                  N(period))
           currentTypicalPrice == ToNumber(Last(typicalPrices))
       IN  Over(Minus(currentTypicalPrice, smaTypicalPrice),
                Times(Ratio(15, 1000), meanDeviation))

(***************************************************************************)
(* SpecIndicators: each indicator function called once, on every short     *)
(* series and every small period, and calculateMACD with its default       *)
(* periods as well.                                                        *)
(***************************************************************************)
MaxSeries == 5        \* longest price series
MaxPeriod == 3        \* largest period tried (besides the MACD defaults)
MaxCandles == 3       \* longest candle series
MaxMacdSeries == 10   \* longest series given to MACD(12, 26, 9)

PriceValues == {1, 2, 10}

PriceSeries == SeqsUpTo({N(v) : v \in PriceValues}, MaxSeries)

Periods == 1..MaxPeriod

DefaultMacdPeriods == <<12, 26, 9>>

MacdCalls ==
  {[fn |-> "calculateMACD", data |-> p, periods |-> DefaultMacdPeriods] :
     p \in SeqsUpTo({N(1), N(2)}, MaxMacdSeries)}
  \cup {[fn |-> "calculateMACD", data |-> p, periods |-> k] :
          p \in PriceSeries, k \in {<<1, 2, 2>>, <<2, 3, 2>>}}

Candle(low, close, high) ==
  [high |-> N(high), low |-> N(low), close |-> N(close)]

Candles ==
  {Candle(1, 1, 1), Candle(1, 2, 3), Candle(1, 1, 2), Candle(2, 3, 3)}

CandleSeries == SeqsUpTo(Candles, MaxCandles)

IndicatorCalls ==
  {[fn |-> f, data |-> p, period |-> k] :
     f \in {"calculateMovingAverages", "calculateEMA", "calculateRSI",
            "calculateBollingerBands"},
     p \in PriceSeries, k \in Periods}
  \cup MacdCalls
  \cup {[fn |-> f, data |-> c, period |-> k] :
          f \in {"calculateATR", "calculateCCI"},
          c \in CandleSeries, k \in Periods}
  \cup {[fn |-> "calculateStochastic", data |-> c, kPeriod |-> k,
         dPeriod |-> d] : c \in CandleSeries, k \in Periods, d \in Periods}

Calling(fn) == pc = "ready" /\ call.fn = fn

Returns(value) ==
  /\ result' = value
  /\ pc' = "returned"
  /\ UNCHANGED <<technicalAnalysis, sentimentAnalysis, volumeAnalysis,
                 absent, recommendation, call>>

Throws ==
  /\ result' = NoResult
  /\ pc' = "thrown"
  /\ UNCHANGED <<technicalAnalysis, sentimentAnalysis, volumeAnalysis,
                 absent, recommendation, call>>

CalculateMovingAverages ==
  /\ Calling("calculateMovingAverages")
  /\ Returns(calculateMovingAverages(call.data, call.period))

CalculateEMA ==
  /\ Calling("calculateEMA")
  /\ Returns(calculateEMA(call.data, call.period))

CalculateRSI ==
  /\ Calling("calculateRSI")
  /\ Returns(calculateRSI(call.data, call.period))

CalculateMACD ==
  /\ Calling("calculateMACD")
  /\ LET outcome == calculateMACD(call.data, call.periods[1],
                                  call.periods[2], call.periods[3])
     IN  IF outcome.raised THEN Throws ELSE Returns(outcome.value)

CalculateBollingerBands ==
  /\ Calling("calculateBollingerBands")
  /\ Returns(calculateBollingerBands(call.data, call.period, 2))

CalculateATR ==
  /\ Calling("calculateATR")
  /\ Returns(calculateATR(call.data, call.period))

CalculateStochastic ==
  /\ Calling("calculateStochastic")
  /\ Returns(calculateStochastic(call.data, call.kPeriod, call.dPeriod))

CalculateCCI ==
  /\ Calling("calculateCCI")
  /\ Returns(calculateCCI(call.data, call.period))

NextIndicators ==
  \/ CalculateMovingAverages
  \/ CalculateEMA
  \/ CalculateRSI
  \/ CalculateMACD
  \/ CalculateBollingerBands
  \/ CalculateATR
  \/ CalculateStochastic
  \/ CalculateCCI

InitIndicators ==
  /\ call \in IndicatorCalls
  /\ NoArguments

SpecIndicators == InitIndicators /\ [][NextIndicators]_vars

ReturnedFrom(fn) == pc = "returned" /\ call.fn = fn

\* C12: calculateMovingAverages(P, k) has the length of P; its entry i is
\* null for i < k-1 and the mean of P[i-k+1..i] otherwise, so a constant
\* series gives that constant at every valid index.
C12_MovingAverage ==
  ReturnedFrom("calculateMovingAverages")
    => LET P == call.data
           k == call.period
       IN  /\ Len(result) = Len(P)
           /\ \A i \in 0..(Len(P) - 1) :
                IF i < k - 1
                  THEN result[i + 1] = NullEntry
                  ELSE /\ IsNumber(result[i + 1])
                       /\ result[i + 1][2] > 0
                       /\ result[i + 1][1] * k =
                            result[i + 1][2]
                              * SumSeq([j \in 1..k |-> P[i - k + 1 + j][1]])
           /\ \A c \in PriceValues :
                (\A i \in DOMAIN P : P[i] = N(c))
                  => \A i \in DOMAIN P : i - 1 >= k - 1 => result[i] = N(c)

\* The scenario of the claim: closes [10,10,10,10,10] with k = 3 give
\* [null, null, 10, 10, 10].
C12_Witness ==
  /\ ReturnedFrom("calculateMovingAverages")
  /\ call.data = <<N(10), N(10), N(10), N(10), N(10)>>
  /\ call.period = 3
  /\ result = <<NullEntry, NullEntry, N(10), N(10), N(10)>>

NoValueIn(array) == \A i \in DOMAIN array : ~IsNumber(array[i])

\* C13: when the period k exceeds the length n of the series, the output
\* of each indicator (SMA, EMA, RSI, Bollinger bands, ATR, and the MACD
\* lines when the slow period exceeds n) contains no number.
C13_UndefinedBeyondHistory ==
  /\ (pc = "returned"
      /\ call.fn \in {"calculateMovingAverages", "calculateEMA",
                      "calculateRSI", "calculateATR"}
      /\ call.period > Len(call.data))
       => NoValueIn(result)
  /\ (ReturnedFrom("calculateBollingerBands")
      /\ call.period > Len(call.data))
       => /\ NoValueIn(result.upper)
          /\ NoValueIn(result.middle)
          /\ NoValueIn(result.lower)
  /\ (ReturnedFrom("calculateMACD") /\ call.periods[2] > Len(call.data))
       => /\ NoValueIn(result.macdLine)
          /\ NoValueIn(result.signalLine)
          /\ NoValueIn(result.histogram)

\* C14: no indicator function (SMA, EMA, RSI, MACD(12,26,9), Bollinger,
\* ATR, Stochastic, CCI) throws, whatever the length n >= 0 of the series.
C14_NoThrowOnShortInput ==
  (call.fn \in {"calculateMovingAverages", "calculateEMA", "calculateRSI",
                "calculateBollingerBands", "calculateATR",
                "calculateStochastic", "calculateCCI"}
   \/ (call.fn = "calculateMACD" /\ call.periods = DefaultMacdPeriods))
    => pc # "thrown"

(***************************************************************************)
(* Technical analyzer: the classifications made from the indicators.  A    *)
(* comparison converts its operands to numbers: null is 0 and undefined    *)
(* is NaN, which compares false with everything.                           *)
(***************************************************************************)
LessThan(a, b) == Less(ToNumber(a), ToNumber(b))

GreaterThan(a, b) == Less(ToNumber(b), ToNumber(a))

rsiCondition(rsi) ==
  IF GreaterThan(rsi, N(70)) THEN "overbought"
  ELSE IF LessThan(rsi, N(30)) THEN "oversold"
  ELSE "neutral"

macdCondition(macd) ==
  IF GreaterThan(macd.macdLine, macd.signalLine)
     /\ GreaterThan(macd.histogram, N(0))
    THEN "bullish"
  ELSE IF LessThan(macd.macdLine, macd.signalLine)
          /\ LessThan(macd.histogram, N(0))
    THEN "bearish"
  ELSE "neutral"

overallMomentum(rsiCond, macdCond) ==
  IF rsiCond = "overbought" /\ macdCond = "bearish" THEN "strongly bearish"
  ELSE IF rsiCond = "oversold" /\ macdCond = "bullish"
    THEN "strongly bullish"
  ELSE IF rsiCond = "overbought" \/ macdCond = "bearish" THEN "bearish"
  ELSE IF rsiCond = "oversold" \/ macdCond = "bullish" THEN "bullish"
  ELSE "neutral"

analyzeMomentum(rsi, macd) ==
  [rsi |-> [value |-> rsi, condition |-> rsiCondition(rsi)],
   macd |-> [macdLine |-> macd.macdLine, signalLine |-> macd.signalLine,
             histogram |-> macd.histogram,
             condition |-> macdCondition(macd)],
   overallMomentum |->
     overallMomentum(rsiCondition(rsi), macdCondition(macd))]

analyzeMovingAverages(currentPrice, sma) ==
  LET aboveSma20 == GreaterThan(currentPrice, sma.sma20)
      aboveSma50 == GreaterThan(currentPrice, sma.sma50)
      aboveSma200 == GreaterThan(currentPrice, sma.sma200)
  IN  [currentPrice |-> currentPrice,
       sma |-> sma,
       aboveSma20 |-> aboveSma20,
       aboveSma50 |-> aboveSma50,
       aboveSma200 |-> aboveSma200,
       goldenCross |-> GreaterThan(sma.sma50, sma.sma200),
       deathCross |-> LessThan(sma.sma50, sma.sma200),
       maTrend |->
         IF aboveSma20 /\ aboveSma50 /\ aboveSma200 THEN "strongly bullish"
         ELSE IF ~aboveSma20 /\ ~aboveSma50 /\ ~aboveSma200
           THEN "strongly bearish"
         ELSE IF aboveSma20 /\ aboveSma50 THEN "bullish"
         ELSE IF ~aboveSma20 /\ ~aboveSma50 THEN "bearish"
         ELSE "neutral"]

stochasticCondition(stochastic) ==
  IF GreaterThan(stochastic.k, N(80)) /\ GreaterThan(stochastic.d, N(80))
    THEN "overbought"
  ELSE IF LessThan(stochastic.k, N(20)) /\ LessThan(stochastic.d, N(20))
    THEN "oversold"
  ELSE "neutral"

cciCondition(cci) ==
  IF GreaterThan(cci, N(100)) THEN "overbought"
  ELSE IF LessThan(cci, N(-100)) THEN "oversold"
  ELSE "neutral"

oscillatorBullishCount(rsi, stochasticCond, cciCond) ==
  B(LessThan(rsi, N(30))) + B(stochasticCond = "oversold")
    + B(cciCond = "oversold")

oscillatorBearishCount(rsi, stochasticCond, cciCond) ==
  B(GreaterThan(rsi, N(70))) + B(stochasticCond = "overbought")
    + B(cciCond = "overbought")

oscillatorConsensus(bullishCount, bearishCount) ==
  IF bullishCount > bearishCount THEN "bullish"
  ELSE IF bearishCount > bullishCount THEN "bearish"
  ELSE "neutral"

analyzeOscillators(rsi, klines) ==
  LET stochastic == calculateStochastic(klines, 14, 3)
      cci == calculateCCI(klines, 20)
      stochasticCond == stochasticCondition(stochastic)
      cciCond == cciCondition(cci)
  IN  [rsi |-> [value |-> rsi, condition |-> rsiCondition(rsi)],
       stochastic |-> [k |-> stochastic.k, d |-> stochastic.d,
                       condition |-> stochasticCond],
       cci |-> [value |-> cci, condition |-> cciCond],
       consensus |->
         oscillatorConsensus(
           oscillatorBullishCount(rsi, stochasticCond, cciCond),
           oscillatorBearishCount(rsi, stochasticCond, cciCond))]

(***************************************************************************)
(* analyzeMarketStructure: local highs and lows of the last 10 candles, a  *)
(* local high being strictly above both neighbours.                        *)
(***************************************************************************)
Indices(array) == [i \in 1..Len(array) |-> i]

localHighs(recentKlines) ==
  LET at == SelectSeq(Indices(recentKlines), LAMBDA i :
              /\ 1 < i /\ i < Len(recentKlines)
              /\ Less(recentKlines[i - 1].high, recentKlines[i].high)
              /\ Less(recentKlines[i + 1].high, recentKlines[i].high))
  IN  [j \in DOMAIN at |-> recentKlines[at[j]].high]

localLows(recentKlines) ==
  LET at == SelectSeq(Indices(recentKlines), LAMBDA i :
              /\ 1 < i /\ i < Len(recentKlines)
              /\ Less(recentKlines[i].low, recentKlines[i - 1].low)
              /\ Less(recentKlines[i].low, recentKlines[i + 1].low))
  IN  [j \in DOMAIN at |-> recentKlines[at[j]].low]

checkHigherHighsLows(klines) ==
  LET recentKlines == SliceLast(klines, 10)
      highs == localHighs(recentKlines)
      lows == localLows(recentKlines)
  IN  IF Len(highs) < 2 \/ Len(lows) < 2
        THEN [higherHighs |-> FALSE, higherLows |-> FALSE]
        ELSE [higherHighs |-> Less(highs[1], highs[Len(highs)]),
              higherLows |-> Less(lows[1], lows[Len(lows)])]

checkLowerHighsLows(klines) ==
  LET recentKlines == SliceLast(klines, 10)
      highs == localHighs(recentKlines)
      lows == localLows(recentKlines)
  IN  IF Len(highs) < 2 \/ Len(lows) < 2
        THEN [lowerHighs |-> FALSE, lowerLows |-> FALSE]
        ELSE [lowerHighs |-> Less(highs[Len(highs)], highs[1]),
              lowerLows |-> Less(lows[Len(lows)], lows[1])]

analyzeMarketStructure_eitherHolds(klines) ==
  LET higherHighsLows == checkHigherHighsLows(klines)
      lowerHighsLows == checkLowerHighsLows(klines)
  IN  [higherHighsLows |-> higherHighsLows,
       lowerHighsLows |-> lowerHighsLows,
       structure |->
         IF higherHighsLows.higherHighs \/ higherHighsLows.higherLows
           THEN "uptrend"
         ELSE IF lowerHighsLows.lowerHighs \/ lowerHighsLows.lowerLows
           THEN "downtrend"
         ELSE "ranging"]

analyzeMarketStructure(klines) ==
  LET higherHighsLows == checkHigherHighsLows(klines)
      lowerHighsLows == checkLowerHighsLows(klines)
  IN  [higherHighsLows |-> higherHighsLows,
       lowerHighsLows |-> lowerHighsLows,
       structure |->
         IF higherHighsLows.higherHighs /\ higherHighsLows.higherLows
           THEN "uptrend"
         ELSE IF lowerHighsLows.lowerHighs /\ lowerHighsLows.lowerLows
           THEN "downtrend"
         ELSE "ranging"]

(***************************************************************************)
(* analyzeVolumeTrends: the volume of the last 24 hourly candles against   *)
(* the daily average of the last 7 daily candles.                          *)
(***************************************************************************)
volumeTrendClassification_inclusive(trend24hVs7d) ==
  IF ~LessThan(trend24hVs7d, N(20)) THEN "increasing"
  ELSE IF ~GreaterThan(trend24hVs7d, N(-20)) THEN "decreasing"
  ELSE "stable"

volumeTrendClassification(trend24hVs7d) ==
  IF GreaterThan(trend24hVs7d, N(20)) THEN "increasing"
  ELSE IF LessThan(trend24hVs7d, N(-20)) THEN "decreasing"
  ELSE "stable"

analyzeVolumeTrends(hourlyVolumes, dailyVolumes) ==
  LET last24hVolume == Sum(SliceLast(hourlyVolumes, 24))
      last7dVolume == Sum(SliceLast(dailyVolumes, 7))
      last30dVolume == Sum(SliceLast(dailyVolumes, 30))
      avgDaily24h == last24hVolume
      avgDaily7d == Over(last7dVolume, N(7))
      avgDaily30d == Over(last30dVolume, N(30))
      trend24hVs7d ==
        Times(Minus(Over(avgDaily24h, avgDaily7d), N(1)), N(100))
      trend7dVs30d ==
        Times(Minus(Over(avgDaily7d, avgDaily30d), N(1)), N(100))
  IN  [volumes |-> [last24h |-> last24hVolume, last7d |-> last7dVolume,
                    last30d |-> last30dVolume],
       averages |-> [daily24h |-> avgDaily24h, daily7d |-> avgDaily7d,
                     daily30d |-> avgDaily30d],
       trends |-> [trend24hVs7d |-> trend24hVs7d,
                   trend7dVs30d |-> trend7dVs30d],
       classification |-> volumeTrendClassification(trend24hVs7d),
       volumeSpikes |->
         Len(SelectSeq(SliceLast(hourlyVolumes, 24),
                       LAMBDA vol : GreaterThan(vol, avgDaily7d)))]

(***************************************************************************)
(* SpecAnalyzers: each classification of the analyzers called once, on     *)
(* the indicator values a short or a long history produces.                *)
(***************************************************************************)
MaxOscillatorCandles == 20   \* longest daily series given to the oscillators

RsiValues == {NullEntry, N(0), N(20), N(30), N(50), N(70), N(80), N(100)}

MacdLineValues == {NullEntry, N(-1), N(0), N(1)}

\* the last entries of the three lines calculateMACD returns
MacdValues ==
  {[macdLine |-> m, signalLine |-> g,
    histogram |-> IF m = NullEntry \/ g = NullEntry THEN NullEntry
                  ELSE Minus(m, g)] :
     m \in MacdLineValues, g \in MacdLineValues}

SmaLevels == {N(90), N(100), N(110)}

\* a longer average needs a longer history: it is null when a shorter is
SmaValues ==
  {[sma20 |-> a, sma50 |-> b, sma200 |-> c] :
     a \in SmaLevels, b \in SmaLevels, c \in SmaLevels \cup {NullEntry}}
  \cup {[sma20 |-> a, sma50 |-> NullEntry, sma200 |-> NullEntry] :
          a \in SmaLevels \cup {NullEntry}}

TwoBlocks(a, b, n, m) == [i \in 1..n |-> IF i <= m THEN a ELSE b]

OscillatorKlines ==
  {TwoBlocks(a, b, n, m) :
     a \in Candles, b \in Candles,
     n \in (MaxOscillatorCandles - 8)..MaxOscillatorCandles,
     m \in 0..MaxOscillatorCandles}

MaxStructureCandles == 4   \* longest run of varied candles at the end

\* narrow candle, and candles reaching higher and lower than it
StructureCandles ==
  {Candle(2, 2, 3), Candle(0, 0, 4), Candle(1, 1, 5), Candle(0, 0, 5),
   Candle(1, 1, 4)}

\* older candles: narrow ones, after a wide one
StructureLead ==
  <<Candle(2, 2, 3), Candle(0, 0, 5)>>
    \o [i \in 1..5 |-> Candle(2, 2, 3)]

StructureKlines ==
  {lead \o recent :
     lead \in {<<>>, StructureLead},
     recent \in SeqsUpTo(StructureCandles, MaxStructureCandles)}

MaxHourly == 25       \* longest series of hourly volumes
MaxDaily == 8         \* longest series of daily volumes

HourlyVolumes ==
  {TwoBlocks(a, b, n, m) :
     a \in {N(0), N(1)}, b \in {N(0), N(1)},
     n \in (MaxHourly - 1)..MaxHourly, m \in 0..MaxHourly}

DailyVolumes ==
  {TwoBlocks(a, b, n, m) :
     a \in {N(0), N(5), N(20)}, b \in {N(0), N(5), N(20)},
     n \in (MaxDaily - 1)..MaxDaily, m \in 0..MaxDaily}

(***************************************************************************)
(* Price patterns.  detectDoubleTop looks for two local maxima of the      *)
(* highs (above the two highs on either side) of similar height, far      *)
(* enough apart, with a drop of the closes between them; its result is     *)
(* the first such pair in the order of the two loops.  detectDoubleBottom  *)
(* is the same on the lows with a rise of the closes.                      *)
(***************************************************************************)
SimilarityThreshold == <<1, 50>>

ReversalThreshold == <<3, 100>>

PeakSeparation == 5

NotDetected == [detected |-> FALSE]

localExtremaOfRadiusTwo(values, findMaxima) ==
  LET beyond(a, b) == IF findMaxima THEN Less(b, a) ELSE Less(a, b)
      at == SelectSeq(Indices(values), LAMBDA i :
              /\ 2 < i /\ i < Len(values) - 1
              /\ beyond(values[i], values[i - 1])
              /\ beyond(values[i], values[i - 2])
              /\ beyond(values[i], values[i + 1])
              /\ beyond(values[i], values[i + 2]))
  IN  [k \in DOMAIN at |-> [index |-> at[k] - 1, value |-> values[at[k]]]]

similarAndApart(first, second) ==
  /\ Less(Over(AbsOf(Minus(first.value, second.value)), first.value),
          SimilarityThreshold)
  /\ Abs(first.index - second.index) > PeakSeparation

\* The first pair <<i, j>>, i < j, in the order of the nested loops.
firstPair(pairs) ==
  CHOOSE p \in pairs :
    \A q \in pairs : p[1] < q[1] \/ (p[1] = q[1] /\ p[2] <= q[2])

dropPercentage(closes, first, second) ==
  LET minBetween == Lowest(Slice(closes, first.index, second.index))
  IN  Over(Minus(first.value, minBetween), first.value)

detectDoubleTop(klines) ==
  LET closes == [i \in DOMAIN klines |-> klines[i].close]
      highs == [i \in DOMAIN klines |-> klines[i].high]
      localMaxima == localExtremaOfRadiusTwo(highs, TRUE)
      pairs ==
        {p \in (DOMAIN localMaxima) \X (DOMAIN localMaxima) :
           /\ p[1] < p[2]
           /\ similarAndApart(localMaxima[p[1]], localMaxima[p[2]])
           /\ Less(ReversalThreshold,
                   dropPercentage(closes, localMaxima[p[1]],
                                  localMaxima[p[2]]))}
  IN  IF Len(localMaxima) < 2 \/ pairs = {} THEN NotDetected
      ELSE LET i == firstPair(pairs)[1]
               j == firstPair(pairs)[2]
           IN  [detected |-> TRUE,
                firstPeak |-> localMaxima[i],
                secondPeak |-> localMaxima[j],
                dropPercentage |->
                  dropPercentage(closes, localMaxima[i], localMaxima[j])]

risePercentage(closes, first, second) ==
  LET maxBetween == Highest(Slice(closes, first.index, second.index))
  IN  Over(Minus(maxBetween, first.value), first.value)

detectDoubleBottom(klines) ==
  LET closes == [i \in DOMAIN klines |-> klines[i].close]
      lows == [i \in DOMAIN klines |-> klines[i].low]
      localMinima == localExtremaOfRadiusTwo(lows, FALSE)
      pairs ==
        {p \in (DOMAIN localMinima) \X (DOMAIN localMinima) :
           /\ p[1] < p[2]
           /\ similarAndApart(localMinima[p[1]], localMinima[p[2]])
           /\ Less(ReversalThreshold,
                   risePercentage(closes, localMinima[p[1]],
                                  localMinima[p[2]]))}
  IN  IF Len(localMinima) < 2 \/ pairs = {} THEN NotDetected
      ELSE LET i == firstPair(pairs)[1]
               j == firstPair(pairs)[2]
           IN  [detected |-> TRUE,
                firstBottom |-> localMinima[i],
                secondBottom |-> localMinima[j],
                risePercentage |->
                  risePercentage(closes, localMinima[i], localMinima[j])]

(***************************************************************************)
(* detectEngulfingPatterns: the loop runs i = 1 .. min(5, length) - 1 over *)
(* the pairs (klines[length - i - 1], klines[length - i]).                 *)
(***************************************************************************)
EngulfingLookback == 5

bullishEngulfing(previous, current) ==
  /\ Less(current.open, current.close)
  /\ Less(previous.close, previous.open)
  /\ Less(current.open, previous.close)
  /\ Less(previous.open, current.close)

bearishEngulfing(previous, current) ==
  /\ Less(current.close, current.open)
  /\ Less(previous.open, previous.close)
  /\ Less(previous.close, current.open)
  /\ Less(current.close, previous.open)

detectEngulfingPatterns(klines) ==
  LET length == Len(klines)
      steps == 1..(Min2(EngulfingLookback, length) - 1)
  IN  [bullish |-> \E i \in steps :
                     bullishEngulfing(klines[length - i],
                                      klines[length - i + 1]),
       bearish |-> \E i \in steps :
                     bearishEngulfing(klines[length - i],
                                      klines[length - i + 1])]

\* Klines for the double patterns: quiet candles, a first peak at index 2,
\* a candle closing lower right after it and a second peak some candles
\* later; the mirror image of such a series has two bottoms.
QuietCandle == Candle(90, 98, 98)

DoubleTopKlines(first, second, separation, dip) ==
  [i \in 1..(separation + 5) |->
     IF i = 3 THEN Candle(90, 98, first)
     ELSE IF i = 4 THEN Candle(90, dip, 98)
     ELSE IF i = separation + 3 THEN Candle(90, 98, second)
     ELSE QuietCandle]

Mirrored(klines) ==
  [i \in DOMAIN klines |->
     [high |-> Minus(N(200), klines[i].low),
      low |-> Minus(N(200), klines[i].high),
      close |-> Minus(N(200), klines[i].close)]]

PatternKlines ==
  LET tops == {DoubleTopKlines(100, second, separation, dip) :
                 second \in {98, 99, 100, 101, 102, 103},
                 separation \in {PeakSeparation, PeakSeparation + 1},
                 dip \in {96, 97, 98}}
  IN  tops \cup {Mirrored(k) : k \in tops}

\* Klines for the engulfing patterns: up to two candles of any kind
\* followed by up to MaxTrail flat candles, after at most one flat candle.
MaxTrail == 5

OpenClose(open, close) == [open |-> N(open), close |-> N(close)]

EngulfingCandles ==
  {OpenClose(1, 4), OpenClose(2, 3), OpenClose(4, 1), OpenClose(3, 2),
   OpenClose(1, 3), OpenClose(3, 1)}

FlatCandles(n) == [i \in 1..n |-> OpenClose(2, 2)]

EngulfingKlines ==
  {FlatCandles(before) \o pair \o FlatCandles(after) :
     before \in 0..1, pair \in SeqsUpTo(EngulfingCandles, 2),
     after \in 0..MaxTrail}

AnalyzerCalls ==
  {[fn |-> "analyzeMarketStructure", klines |-> c] : c \in StructureKlines}
  \cup
  {[fn |-> "analyzeVolumeTrends", hourlyVolumes |-> h, dailyVolumes |-> d] :
     h \in HourlyVolumes, d \in DailyVolumes}
  \cup
  {[fn |-> "analyzeMomentum", rsi |-> r, macd |-> m] :
     r \in RsiValues, m \in MacdValues}
  \cup {[fn |-> "analyzeMovingAverages", currentPrice |-> N(100),
         sma |-> v] : v \in SmaValues}
  \cup {[fn |-> "analyzeOscillators", rsi |-> r, klines |-> c] :
          r \in {NullEntry, N(20), N(50), N(80)}, c \in OscillatorKlines}
  \cup {[fn |-> f, klines |-> k] :
          f \in {"detectDoubleTop", "detectDoubleBottom"},
          k \in PatternKlines}
  \cup {[fn |-> "detectEngulfingPatterns", klines |-> k] :
          k \in EngulfingKlines}

AnalyzeMomentum ==
  /\ Calling("analyzeMomentum")
  /\ Returns(analyzeMomentum(call.rsi, call.macd))

AnalyzeMovingAverages ==
  /\ Calling("analyzeMovingAverages")
  /\ Returns(analyzeMovingAverages(call.currentPrice, call.sma))

AnalyzeOscillators ==
  /\ Calling("analyzeOscillators")
  /\ Returns(analyzeOscillators(call.rsi, call.klines))

AnalyzeMarketStructure ==
  /\ Calling("analyzeMarketStructure")
  /\ Returns(analyzeMarketStructure(call.klines))

AnalyzeVolumeTrends ==
  /\ Calling("analyzeVolumeTrends")
  /\ Returns(analyzeVolumeTrends(call.hourlyVolumes, call.dailyVolumes))

DetectDoubleTop ==
  /\ Calling("detectDoubleTop")
  /\ Returns(detectDoubleTop(call.klines))

DetectDoubleBottom ==
  /\ Calling("detectDoubleBottom")
  /\ Returns(detectDoubleBottom(call.klines))

DetectEngulfingPatterns ==
  /\ Calling("detectEngulfingPatterns")
  /\ Returns(detectEngulfingPatterns(call.klines))

NextAnalyzers ==
  \/ AnalyzeMomentum
  \/ AnalyzeMovingAverages
  \/ AnalyzeOscillators
  \/ AnalyzeMarketStructure
  \/ AnalyzeVolumeTrends
  \/ DetectDoubleTop
  \/ DetectDoubleBottom
  \/ DetectEngulfingPatterns

InitAnalyzers ==
  /\ call \in AnalyzerCalls
  /\ NoArguments

SpecAnalyzers == InitAnalyzers /\ [][NextAnalyzers]_vars

\* C15: when the RSI or the Stochastic %K/%D is undefined, the RSI
\* condition and the stochastic condition are 'neutral', they add nothing
\* to the oscillator bullish/bearish counts, and the overall momentum is
\* what the MACD condition alone gives.
C15_UndefinedOscillatorSkipped ==
  /\ (ReturnedFrom("analyzeMomentum") /\ ~IsNumber(call.rsi))
       => /\ result.rsi.condition = "neutral"
          /\ result.overallMomentum =
               overallMomentum("neutral", result.macd.condition)
  /\ ReturnedFrom("analyzeOscillators")
       => LET rsiDefined == IsNumber(call.rsi)
              stochasticDefined == /\ IsNumber(result.stochastic.k)
                                   /\ IsNumber(result.stochastic.d)
              bullish ==
                B(rsiDefined /\ LessThan(call.rsi, N(30)))
                  + B(stochasticDefined
                      /\ result.stochastic.condition = "oversold")
                  + B(result.cci.condition = "oversold")
              bearish ==
                B(rsiDefined /\ GreaterThan(call.rsi, N(70)))
                  + B(stochasticDefined
                      /\ result.stochastic.condition = "overbought")
                  + B(result.cci.condition = "overbought")
          IN  /\ ~rsiDefined => result.rsi.condition = "neutral"
              /\ ~stochasticDefined
                   => result.stochastic.condition = "neutral"
              /\ result.consensus = oscillatorConsensus(bullish, bearish)

\* C16: when a moving average is undefined the current price is not
\* treated as above it; with SMA200 undefined the posture is not
\* 'strongly bullish', and it is 'strongly bearish' when the price is
\* above neither SMA20 nor SMA50.
C16_UndefinedAverageNotBelowPrice ==
  ReturnedFrom("analyzeMovingAverages")
    => /\ ~IsNumber(call.sma.sma20) => ~result.aboveSma20
       /\ ~IsNumber(call.sma.sma50) => ~result.aboveSma50
       /\ ~IsNumber(call.sma.sma200) => ~result.aboveSma200
       /\ ~IsNumber(call.sma.sma200)
            => /\ result.maTrend # "strongly bullish"
               /\ (~result.aboveSma20 /\ ~result.aboveSma50)
                    => result.maTrend = "strongly bearish"

\* The entry at position q >= 2 of the RSI output is computed from the
\* deltas 1..(q + k - 2) of the series; delta d is P[d + 1] - P[d].
LossAt(P, d) == Less(P[d + 1], P[d])

RsiInRange(value) == ~Less(value, N(0)) /\ ~Less(Hundred, value)

\* C17 as stated: for n >= k+1, wherever RSI(k) is defined it lies in
\* [0,100] and equals 100 if and only if there is no loss among the last
\* k deltas ending at that index.
C17_HundredIffNoLossInLastK ==
  (ReturnedFrom("calculateRSI") /\ Len(call.data) >= call.period + 1)
    => \A q \in DOMAIN result :
         IsNumber(result[q])
           => /\ RsiInRange(result[q])
              /\ result[q] = Hundred
                   <=> \A d \in (q - 1)..(q + call.period - 2) :
                         ~LossAt(call.data, d)

\* C17 amended: for n >= k+1, wherever RSI(k) is defined it lies in
\* [0,100] and equals 100 if and only if the smoothed average loss is
\* zero: for k >= 2 when no delta from the start of the series up to
\* that index is a loss, for k = 1 when the last delta is not a loss.
C17_HundredIffNoLossSoFar ==
  (ReturnedFrom("calculateRSI") /\ Len(call.data) >= call.period + 1)
    => \A q \in DOMAIN result :
         IsNumber(result[q])
           => /\ RsiInRange(result[q])
              /\ result[q] = Hundred
                   <=> \A d \in (IF call.period = 1 THEN q - 1 ELSE 1)
                                  ..(q + call.period - 2) :
                         ~LossAt(call.data, d)

\* A value below 100 although none of the last k deltas is a loss, and a
\* value of 100, in outputs of calculateRSI.
C17_Witness ==
  /\ ReturnedFrom("calculateRSI")
  /\ call.period >= 2
  /\ Len(call.data) >= call.period + 2
  /\ \E q \in DOMAIN result :
       /\ IsNumber(result[q])
       /\ result[q] # Hundred
       /\ Less(N(0), result[q])
       /\ \A d \in (q - 1)..(q + call.period - 2) : ~LossAt(call.data, d)

\* The last 10 candles and the positions of their local highs and lows.
Window == SliceLast(call.klines, 10)

HighPositions ==
  {i \in 2..(Len(Window) - 1) :
     /\ Less(Window[i - 1].high, Window[i].high)
     /\ Less(Window[i + 1].high, Window[i].high)}

LowPositions ==
  {i \in 2..(Len(Window) - 1) :
     /\ Less(Window[i].low, Window[i - 1].low)
     /\ Less(Window[i].low, Window[i + 1].low)}

EnoughExtremes ==
  Cardinality(HighPositions) >= 2 /\ Cardinality(LowPositions) >= 2

HigherHighs ==
  /\ EnoughExtremes
  /\ Less(Window[MinOf(HighPositions)].high, Window[MaxOf(HighPositions)].high)

HigherLows ==
  /\ EnoughExtremes
  /\ Less(Window[MinOf(LowPositions)].low, Window[MaxOf(LowPositions)].low)

LowerHighs ==
  /\ EnoughExtremes
  /\ Less(Window[MaxOf(HighPositions)].high, Window[MinOf(HighPositions)].high)

LowerLows ==
  /\ EnoughExtremes
  /\ Less(Window[MaxOf(LowPositions)].low, Window[MinOf(LowPositions)].low)

\* C18: analyzeMarketStructure returns 'uptrend' only when the last local
\* high and the last local low of the last 10 candles are above the first
\* ones, 'downtrend' only when both are below, and 'ranging' on partial
\* agreement or with fewer than 2 local highs or lows; the two conditions
\* never hold together.
C18_MarketStructure ==
  ReturnedFrom("analyzeMarketStructure")
    => /\ result.structure = "uptrend" => (HigherHighs /\ HigherLows)
       /\ result.structure = "downtrend" => (LowerHighs /\ LowerLows)
       /\ (~(HigherHighs /\ HigherLows) /\ ~(LowerHighs /\ LowerLows))
            => result.structure = "ranging"
       /\ ~EnoughExtremes => result.structure = "ranging"
       /\ ~(HigherHighs /\ HigherLows /\ LowerHighs /\ LowerLows)
       /\ result.structure \in {"uptrend", "downtrend", "ranging"}

\* Higher highs with lower lows in the last 10 of more than 10 candles:
\* partial agreement, 'ranging'.
C18_Witness ==
  /\ ReturnedFrom("analyzeMarketStructure")
  /\ Len(call.klines) > 10
  /\ HigherHighs
  /\ LowerLows
  /\ result.structure = "ranging"

\* Whole volumes: the sum of the last 24 hourly and of the last 7 daily
\* volumes of the call.
Volume24h ==
  SumSeq([i \in DOMAIN SliceLast(call.hourlyVolumes, 24) |->
            SliceLast(call.hourlyVolumes, 24)[i][1]])

Volume7d ==
  SumSeq([i \in DOMAIN SliceLast(call.dailyVolumes, 7) |->
            SliceLast(call.dailyVolumes, 7)[i][1]])

\* C19: the volume trend is 'increasing' when the last-24h volume is more
\* than 20% above the 7-day daily average (Volume24h > 1.2 * Volume7d / 7),
\* 'decreasing' when it is more than 20% below it, and 'stable' otherwise,
\* exactly +20% or -20% included; 3x the average gives 'increasing'.
C19_VolumeTrend ==
  ReturnedFrom("analyzeVolumeTrends")
    => /\ result.classification =
            IF 35 * Volume24h > 6 * Volume7d THEN "increasing"
            ELSE IF 35 * Volume24h < 4 * Volume7d THEN "decreasing"
            ELSE "stable"
       /\ (35 * Volume24h = 6 * Volume7d \/ 35 * Volume24h = 4 * Volume7d)
            => result.classification = "stable"
       /\ (7 * Volume24h = 3 * Volume7d /\ Volume7d > 0)
            => result.classification = "increasing"

\* Exactly 20% above the average of a longer history: 'stable'.
C19_Witness ==
  /\ ReturnedFrom("analyzeVolumeTrends")
  /\ Len(call.hourlyVolumes) > 24
  /\ Len(call.dailyVolumes) > 7
  /\ Volume7d > 0
  /\ 35 * Volume24h = 6 * Volume7d
  /\ result.classification = "stable"

\* C20: generateTradeRecommendation leaves its three arguments unchanged:
\* after any call (long, short, neutral or error outcome) the technical,
\* sentiment and volume analyses, their level arrays included, equal what
\* they were before the call.
C20_ArgumentsUnchanged ==
  [][/\ technicalAnalysis' = technicalAnalysis
     /\ sentimentAnalysis' = sentimentAnalysis
     /\ volumeAnalysis' = volumeAnalysis
     /\ absent' = absent]_vars

\* A call that ended in the error fallback, made with a support level.
C20_Witness ==
  /\ Returned
  /\ absent # {}
  /\ recommendation.reason[1] = "Error generating recommendation: "
  /\ Len(technicalAnalysis.supportResistance.levels.support) >= 1

(***************************************************************************)
(* Properties of the plan's entries, stop and targets against the levels.  *)
(***************************************************************************)
LimitPrices ==
  LET limits == SelectSeq(recommendation.entries,
                          LAMBDA e : e.type = "limit")
  IN  [i \in DOMAIN limits |-> limits[i].price]

\* The nearest and the next-nearest level of a set on one side of the
\* price, nearest first: the two highest of the levels below, or the two
\* lowest of the levels above.
TwoHighest(S) ==
  IF S = {} THEN <<>>
  ELSE IF Cardinality(S) = 1 THEN <<MaxOf(S)>>
  ELSE <<MaxOf(S), MaxOf(S \ {MaxOf(S)})>>

TwoLowest(S) ==
  IF S = {} THEN <<>>
  ELSE IF Cardinality(S) = 1 THEN <<MinOf(S)>>
  ELSE <<MinOf(S), MinOf(S \ {MinOf(S)})>>

Scaled(prices) == [i \in DOMAIN prices |-> prices[i] * PriceScale]

\* C21: a long plan has a limit entry at the nearest support exactly when a
\* support below the current price exists and a second one at the
\* next-nearest support exactly when a second such support exists; a short
\* plan likewise with the resistances above the price; the two limit
\* entries are never at the same level.
C21_LimitEntriesAtNearestLevels ==
  IsPlan =>
    LET sr == technicalAnalysis.supportResistance
        below == {l \in Range(sr.levels.support) : l < sr.currentPrice}
        above == {l \in Range(sr.levels.resistance) : l > sr.currentPrice}
    IN  /\ returnedDirection = "long"
             => LimitPrices = Scaled(TwoHighest(below))
        /\ returnedDirection = "short"
             => LimitPrices = Scaled(TwoLowest(above))
        /\ Len(LimitPrices) = 2 => LimitPrices[1] # LimitPrices[2]

(***************************************************************************)
(* Properties of the extrema and of the levels kept for a venue.           *)
(***************************************************************************)
\* The 0-based indices findLocalExtrema reported.
MarkedIndices == {result[k].index : k \in DOMAIN result}

\* C22: findLocalExtrema with window radius w marks index i as a local
\* maximum exactly when w <= i < n - w and data[i] is strictly greater
\* than every other point of i-w..i+w; a point that ties the window's
\* maximum is not marked; minima symmetrically with strictly less.
C22_StrictExtrema ==
  (pc = "returned" /\ call.fn = "findLocalExtrema")
    => LET n == Len(call.data)
           w == call.windowSize
           at(i) == call.data[i + 1]
           strict(i) ==
             \A j \in (i - w)..(i + w) :
               j # i => IF call.findMaxima THEN at(i) > at(j)
                        ELSE at(i) < at(j)
       IN  \A i \in 0..(n - 1) :
             i \in MarkedIndices <=> (w <= i /\ i < n - w /\ strict(i))

\* The clustered levels identifySupportResistance chose from.
ClusteredLevels(findMaxima) ==
  LET series == [i \in DOMAIN call.klines |->
                   IF findMaxima THEN call.klines[i].high
                   ELSE call.klines[i].low]
  IN  clusterLevels(ValuesOf(findLocalExtrema(series, findMaxima,
                                              DefaultWindowSize)),
                    ClusterThreshold)

\* The current price of a venue: the close of its last daily kline.
LastClose == call.klines[Len(call.klines)].close

\* Level a (a mean <<sum, count>>) is at most as far from the price as b.
NotFarther(a, b, price) ==
  Abs(a[1] - price * a[2]) * b[2] <= Abs(b[1] - price * b[2]) * a[2]

NearestKept(kept, clustered, price) ==
  /\ Len(kept) <= TopLevels
  /\ Len(kept) = (IF Len(clustered) < TopLevels THEN Len(clustered)
                  ELSE TopLevels)
  /\ Range(kept) \subseteq Range(clustered)
  /\ \A i \in 1..(Len(kept) - 1) :
       kept[i][1] * kept[i + 1][2] < kept[i + 1][1] * kept[i][2]
  /\ \A a \in Range(kept) :
       \A b \in Range(clustered) \ Range(kept) : NotFarther(a, b, price)

\* C23: the support and the resistance levels kept for a venue, at most
\* five each, are the clustered levels nearest to the current price, in
\* ascending order.
C23_NearestLevelsKept ==
  (pc = "returned" /\ call.fn = "identifySupportResistance")
    => /\ NearestKept(result.support, ClusteredLevels(FALSE), LastClose)
       /\ NearestKept(result.resistance, ClusteredLevels(TRUE), LastClose)

(***************************************************************************)
(* Properties of the price patterns.                                       *)
(***************************************************************************)
\* The values the double pattern is looked for in: the highs for a double
\* top, the lows for a double bottom.
PatternValues ==
  [i \in DOMAIN call.klines |->
     IF call.fn = "detectDoubleTop" THEN call.klines[i].high
     ELSE call.klines[i].low]

\* 0-based index i is a strict local extremum of radius 2.
StrictExtremum(i) ==
  /\ 2 <= i /\ i < Len(call.klines) - 2
  /\ \A j \in {i - 2, i - 1, i + 1, i + 2} :
       IF call.fn = "detectDoubleTop"
         THEN Less(PatternValues[j + 1], PatternValues[i + 1])
         ELSE Less(PatternValues[i + 1], PatternValues[j + 1])

\* The reversal of the closes between the extrema at i < j, as a fraction
\* of the first extremum.
Reversal(i, j) ==
  LET closes == [k \in (i + 1)..j |-> call.klines[k].close]
      first == PatternValues[i + 1]
  IN  IF call.fn = "detectDoubleTop"
        THEN Over(Minus(first,
                        Lowest([k \in 1..(j - i) |-> closes[i + k]])),
                  first)
        ELSE Over(Minus(Highest([k \in 1..(j - i) |-> closes[i + k]]),
                        first),
                  first)

\* C24: detectDoubleTop, and detectDoubleBottom likewise, reports detected
\* exactly when two strict local extrema of radius 2 exist whose values
\* differ by less than 2% of the first, whose indices are more than 5
\* apart and between which the reversal is at least 3%.
C24_DoublePattern ==
  (ReturnedFrom("detectDoubleTop") \/ ReturnedFrom("detectDoubleBottom"))
    => (result.detected <=>
          \E i \in 0..(Len(call.klines) - 1), j \in 0..(Len(call.klines) - 1) :
            /\ i < j
            /\ StrictExtremum(i) /\ StrictExtremum(j)
            /\ Less(Over(AbsOf(Minus(PatternValues[i + 1],
                                     PatternValues[j + 1])),
                         PatternValues[i + 1]),
                    SimilarityThreshold)
            /\ j - i > PeakSeparation
            /\ ~Less(Reversal(i, j), ReversalThreshold))

\* C25: given at least 6 candles, detectEngulfingPatterns reports bullish
\* exactly when in one of the last 5 pairs of consecutive candles the
\* current candle is bullish, the previous one bearish and the current
\* body strictly contains the previous body; bearish symmetrically.
C25_EngulfingInLastFivePairs ==
  (ReturnedFrom("detectEngulfingPatterns") /\ Len(call.klines) >= 6)
    => LET length == Len(call.klines)
           engulfs(i, bullish) ==
             LET current == call.klines[length - i + 1]
                 previous == call.klines[length - i]
                 up(candle) == Less(candle.open, candle.close)
                 down(candle) == Less(candle.close, candle.open)
                 top(candle) == MaxNumber(candle.open, candle.close)
                 bottom(candle) == MinNumber(candle.open, candle.close)
             IN  /\ IF bullish THEN up(current) /\ down(previous)
                    ELSE down(current) /\ up(previous)
                 /\ Less(bottom(current), bottom(previous))
                 /\ Less(top(previous), top(current))
       IN  /\ result.bullish <=> \E i \in 1..5 : engulfs(i, TRUE)
           /\ result.bearish <=> \E i \in 1..5 : engulfs(i, FALSE)

(***************************************************************************)
(* Properties of the MACD lines.                                           *)
(***************************************************************************)
\* The number of defined values of a line at the indices up to i.
DefinedUpTo(line, i) == Cardinality({j \in 1..i : IsNumber(line[j])})

\* C26: calculateMACD(fast, slow, signal) returns three sequences of the
\* input's length; signalLine is undefined at every index with fewer than
\* `signal` defined macdLine values up to it; histogram is defined
\* exactly where both macdLine and signalLine are defined.
C26_SignalLineUndefinedUntilFilled ==
  ReturnedFrom("calculateMACD")
    =>
       /\ Len(result.macdLine) = Len(call.data)
       /\ Len(result.signalLine) = Len(call.data)
       /\ Len(result.histogram) = Len(call.data)
       /\ \A i \in DOMAIN result.signalLine :
            DefinedUpTo(result.macdLine, i) < call.periods[3]
              => ~IsNumber(result.signalLine[i])
       /\ \A i \in DOMAIN result.histogram :
            IsNumber(result.histogram[i])
              <=> (IsNumber(result.macdLine[i])
                   /\ IsNumber(result.signalLine[i]))

\* C27: in a long plan the stop-loss price is strictly below every entry
\* price, in a short plan strictly above every entry price.
C27_StopBeyondEntries ==
  IsPlan =>
    \A price \in EntryPrices(recommendation.entries) :
      /\ returnedDirection = "long"
           => recommendation.stopLoss.price < price
      /\ returnedDirection = "short"
           => recommendation.stopLoss.price > price

\* C28: in a long plan every limit entry is priced strictly below the
\* current price, in a short plan strictly above it.
C28_LimitEntriesBeyondPrice ==
  IsPlan =>
    LET currentPrice ==
          technicalAnalysis.supportResistance.currentPrice * PriceScale
    IN  \A i \in DOMAIN LimitPrices :
          /\ returnedDirection = "long" => LimitPrices[i] < currentPrice
          /\ returnedDirection = "short" => LimitPrices[i] > currentPrice

\* C29: in a long plan every take-profit price is strictly above the
\* current price and the targets are non-decreasing from first to last;
\* in a short plan every take-profit price is strictly below the current
\* price and the targets are non-increasing; every percentageGain is
\* positive.
C29_TakeProfitLadder ==
  IsPlan =>
    LET currentPrice ==
          technicalAnalysis.supportResistance.currentPrice * PriceScale
        targets == recommendation.takeProfitTargets
    IN  /\ \A i \in DOMAIN targets :
             /\ returnedDirection = "long" => targets[i].price > currentPrice
             /\ returnedDirection = "short"
                  => targets[i].price < currentPrice
             /\ targets[i].percentageGain[1] > 0
        /\ \A i \in 1..(Len(targets) - 1) :
             /\ returnedDirection = "long"
                  => targets[i].price <= targets[i + 1].price
             /\ returnedDirection = "short"
                  => targets[i].price >= targets[i + 1].price

(***************************************************************************)
(* Symmetry of the decision under mirroring of the classifications.        *)
(***************************************************************************)
MirrorOf(classification) ==
  CASE classification = "bullish" -> "bearish"
    [] classification = "bearish" -> "bullish"
    [] classification = "strongly bullish" -> "strongly bearish"
    [] classification = "strongly bearish" -> "strongly bullish"
    [] classification = "very bullish" -> "very bearish"
    [] classification = "very bearish" -> "very bullish"
    [] classification = "uptrend" -> "downtrend"
    [] classification = "downtrend" -> "uptrend"
    [] classification = "extreme greed" -> "extreme fear"
    [] classification = "extreme fear" -> "extreme greed"
    [] classification = "greed" -> "fear"
    [] classification = "fear" -> "greed"
    [] classification = "increasing" -> "decreasing"
    [] classification = "decreasing" -> "increasing"
    [] classification = "buying" -> "selling"
    [] classification = "selling" -> "buying"
    [] classification = "strong support" -> "strong resistance"
    [] classification = "strong resistance" -> "strong support"
    [] classification = "long" -> "short"
    [] classification = "short" -> "long"
    [] OTHER -> classification

MirroredTechnical ==
  [technicalAnalysis EXCEPT
     !.trendStrength.direction = MirrorOf(@),
     !.movingAverages.maTrend = MirrorOf(@),
     !.momentum.overallMomentum = MirrorOf(@),
     !.oscillators.consensus = MirrorOf(@),
     !.patterns.patternSignal = MirrorOf(@),
     !.marketStructure.structure = MirrorOf(@)]

MirroredSentiment ==
  [sentimentAnalysis EXCEPT
     !.overallSentiment.classification = MirrorOf(@),
     !.social.sentiment = MirrorOf(@),
     !.news.sentiment = MirrorOf(@),
     !.fearGreedIndex.classification = MirrorOf(@)]

MirroredVolume ==
  [volumeAnalysis EXCEPT
     !.volumeTrends.classification = MirrorOf(@),
     !.buySellRatio.pressureClassification = MirrorOf(@),
     !.volumeAtPrice.volumeWallClassification = MirrorOf(@)]

\* C30: the recommendation for the mirrored analyses is short where the
\* returned one is long, long where it is short and neutral where it is
\* neutral, with the same confidence label.
C30_MirrorSymmetry ==
  Returned =>
    LET mirrored ==
          generateTradeRecommendation(MirroredTechnical, MirroredSentiment,
                                      MirroredVolume, absent).value
    IN  /\ mirrored.recommendation = MirrorOf(recommendation.recommendation)
        /\ mirrored.confidence = recommendation.confidence

\* A short plan of high confidence came out of analyses that are not
\* their own mirror image, extreme fear among them.
C30_Witness ==
  /\ IsPlan
  /\ returnedDirection = "short"
  /\ recommendation.confidence = "high"
  /\ sentimentAnalysis.fearGreedIndex.classification = "extreme fear"
  /\ volumeAnalysis.volumeAtPrice.volumeWallClassification
       = "strong resistance"

====
